---- MODULE Spec2Model ----
(***************************************************************************)
(* Model of the WeChat-channels batch video uploader:                      *)
(*   - the task dispatcher (processTaskSequential / processTaskConcurrent) *)
(*   - page acquisition (GeneratePage)                                     *)
(*   - the per-job pipeline (createVideo, uploadVideo,                     *)
(*     completeVideoUploadForm, setScheduledPublish, performFinalAction).  *)
(*                                                                         *)
(* The remote web page is the environment.  Every answer the browser gives *)
(* to one pipeline run is collected in a record `env`; the Go functions    *)
(* are operators of (their arguments, env) that return the Go error and    *)
(* the sequence of phases they went through.                               *)
(*                                                                         *)
(* Go errors are modelled as the chain of their message parts: Nil is the  *)
(* empty chain, fmt.Errorf("prefix: %v", err) puts a part in front.        *)
(* err.Error() is the empty string exactly for the empty chain.            *)
(***************************************************************************)
EXTENDS Naturals, Integers, Sequences, FiniteSets, Bags, TLC

(***************************************************************************)
(* Bounds of the model.                                                    *)
(***************************************************************************)
\* largest number of tasks dispatched in one run of Spec
MaxTasks == 4
\* largest task count the worker-count rule is evaluated for (SpecWorkers)
MaxTaskCount == 104

(***************************************************************************)
(* Errors.                                                                 *)
(***************************************************************************)
Nil == <<>>

Errorf(msg) == <<msg>>

Wrap(prefix, err) == <<prefix>> \o err

\* err.Error(): the message, "" only for no message parts at all
ErrorText(err) == err

(***************************************************************************)
(* Tasks (VideoCreateTask) and the options handed to the form filler.      *)
(***************************************************************************)
Actions == {"save_draft", "preview", "publish"}

\* VideoCreateTask as the validator hands it over: no outcome yet.
\* RowIndex is the Excel row: the first data row is row 2.
NewTask(rowIndex, description, optional, schedule, scheduleTime, shortTitle, action) ==
    [ RowIndex     |-> rowIndex,
      Description  |-> description,
      Location     |-> optional,
      Collection   |-> optional,
      Link         |-> optional,
      Activity     |-> optional,
      Schedule     |-> schedule,
      ScheduleTime |-> scheduleTime,
      ShortTitle   |-> shortTitle,
      Action       |-> action,
      ChannelName  |-> "",
      Success      |-> FALSE,
      Error        |-> Nil ]

\* VideoUploadOptions built by createVideo from the task
VideoUploadOptions(task) ==
    [ Description  |-> task.Description,
      Location     |-> task.Location,
      Collection   |-> task.Collection,
      Link         |-> task.Link,
      Activity     |-> task.Activity,
      Schedule     |-> task.Schedule,
      ScheduleTime |-> task.ScheduleTime,
      ShortTitle   |-> task.ShortTitle,
      Action       |-> task.Action ]

(***************************************************************************)
(* Phases of a pipeline run.  A run's trace is the sequence of the phases  *)
(* it entered, each with the error the phase ended with (Nil: succeeded).  *)
(***************************************************************************)
Event(phase, err) == [phase |-> phase, err |-> err]

\* fields whose failure is only logged by completeVideoUploadForm
BestEffortPhases == {"Location", "Collection", "Link", "Activity"}

(***************************************************************************)
(* Worker count of the concurrent dispatcher.                              *)
(***************************************************************************)
maxConcurrencyDefault == 3
maxConcurrencyMedium == 5
maxConcurrencyLarge == 10

\* processTaskConcurrent, lines 112-118
maxConcurrencyFor(n) ==
    LET c1 == IF n > 50 /\ n < 100 THEN maxConcurrencyMedium ELSE maxConcurrencyDefault
    IN  IF n > 100 THEN maxConcurrencyLarge ELSE c1

(***************************************************************************)
(* Page acquisition: GeneratePage(context, isLogin = false).               *)
(*                                                                         *)
(* penv: what the browser answers during one acquisition                   *)
(*   newPage  : context.NewPage() succeeds                                 *)
(*   goto     : goto[k] = the k-th page.Goto succeeds                      *)
(*   ready    : outcome of waitForPageReady                                *)
(*   visible  : the selectors of isLoggedIn that are visible on the page   *)
(***************************************************************************)
maxNavigationAttempts == 3

ReadyOutcomes == {"ready", "wrongPage", "timeout"}

\* isLoggedIn, lines 672-677 and 687-691: the selectors it looks for
loggedInSelectors ==
    << ".ant-upload", "text=save draft", "text=publish", "text=upload video" >>
loginSelectors == << ".qrcode", "text=scan to log in", "text=scan with WeChat" >>

Range(seq) == { seq[k] : k \in 1..Len(seq) }

\* isLoggedIn that looks for the login selectors first
isLoggedIn_LoginFirst(visible) ==
    IF \E k \in 1..Len(loginSelectors) : loginSelectors[k] \in visible
    THEN FALSE
    ELSE TRUE

\* isLoggedIn, lines 670-702; an IsVisible that fails counts as not visible
isLoggedIn(visible) ==
    IF \E k \in 1..Len(loggedInSelectors) : loggedInSelectors[k] \in visible
    THEN TRUE
    ELSE IF \E k \in 1..Len(loginSelectors) : loginSelectors[k] \in visible
    THEN FALSE
    ELSE TRUE

\* what is visible on the pages of an acquisition: nothing isLoggedIn looks
\* for, the upload component, the login code, or both a login code and a
\* publish button
VisibleOnPage ==
    { {}, {".ant-upload"}, {".qrcode"}, {".qrcode", "text=publish"} }

PageEnvs ==
    [ newPage  : BOOLEAN,
      goto     : [1..maxNavigationAttempts -> BOOLEAN],
      ready    : ReadyOutcomes,
      visible  : VisibleOnPage ]

\* GeneratePage, line 193: time.Duration(i+1) * 10 * time.Second, after the
\* failed attempt k = i+1
waitTime(k) == k * 10

\* the step of sleeping for so many seconds
Sleep(seconds) == "sleep " \o ToString(seconds)

\* navigate giving up after one attempt
navigate_Once(penv, k) ==
    IF penv.goto[k]
    THEN [err |-> Nil, steps |-> <<"goto">>]
    ELSE [err |-> Errorf("navigation failed"), steps |-> <<"goto">>]

\* The navigation loop, lines 181-199, from attempt k (= i+1) on.
\* Returns the error left in err after the loop and the steps taken.
RECURSIVE navigate(_, _)
navigate(penv, k) ==
    IF k > maxNavigationAttempts
    THEN [err |-> Errorf("navigation failed"), steps |-> <<>>]
    ELSE IF penv.goto[k]
         THEN [err |-> Nil, steps |-> <<"goto">>]
         ELSE \* `if i <= 3` holds for every i of the loop (i = k-1 <= 2)
              LET rest == navigate(penv, k + 1)
              IN  [err |-> rest.err,
                   steps |-> <<"goto", Sleep(waitTime(k)), "reload">> \o rest.steps]

\* waitForPageReady, lines 226-252, by its outcome
waitForPageReady(penv) ==
    CASE penv.ready = "ready"     -> Nil
      [] penv.ready = "wrongPage" -> Errorf("not on the upload page")
      [] penv.ready = "timeout"   -> Errorf("page load timeout")

\* GeneratePage, lines 174-223 (isLogin = false).
\*   created : a page was created in the browser context
\*   page    : the *Page returned ("nil" or "page")
\* GeneratePage never closes the page it created, on any path.
\*   phases  : the acquisition phases entered, with their outcome
GeneratePage(penv) ==
    IF ~penv.newPage
    THEN [created |-> FALSE, page |-> "nil", channelName |-> "",
          err |-> Wrap("create page failed", Errorf("NewPage")),
          steps |-> <<>>,
          phases |-> << Event("PageAcquired", Errorf("NewPage")) >>]
    ELSE LET nav == navigate(penv, 1) IN
         IF nav.err # Nil
         THEN [created |-> TRUE, page |-> "nil", channelName |-> "",
               err |-> Wrap("page creation failed", nav.err),
               steps |-> nav.steps,
               phases |-> << Event("PageAcquired", nav.err) >>]
         ELSE LET ready == waitForPageReady(penv) IN
              IF ready # Nil
              THEN [created |-> TRUE, page |-> "nil", channelName |-> "",
                    err |-> Wrap("page load failed", ready),
                    steps |-> nav.steps,
                    phases |-> << Event("PageAcquired", Nil),
                                  Event("ReadyVerified", ready) >>]
              ELSE IF ~isLoggedIn(penv.visible)
                   THEN \* the %v of line 216 prints the outer err, which is nil here
                        [created |-> TRUE, page |-> "page", channelName |-> "",
                         err |-> Wrap("login invalid", Errorf("<nil>")),
                         steps |-> nav.steps,
                         phases |-> << Event("PageAcquired", Nil),
                                       Event("ReadyVerified", Nil),
                                       Event("LoginVerified",
                                             Wrap("login invalid", Errorf("<nil>"))) >>]
                   ELSE [created |-> TRUE, page |-> "page", channelName |-> "channel",
                         err |-> Nil,
                         steps |-> nav.steps,
                         phases |-> << Event("PageAcquired", Nil),
                                       Event("ReadyVerified", Nil),
                                       Event("LoginVerified", Nil) >>]

(***************************************************************************)
(* The job pipeline on an acquired page.                                   *)
(*                                                                         *)
(* env: what the page answers during one createVideo                       *)
(*   upload      : upload[k] = outcome of the k-th uploadVideoBySelector   *)
(*   description : click and fill of the description editor                *)
(*   failing     : the best-effort field, if any, whose selection fails    *)
(*   schedule    : outcome of setScheduledPublish's own steps              *)
(*   scheduleTime: setScheduleTime (date/time picker) succeeds             *)
(*   shortTitle  : fillShortTitle succeeds                                 *)
(*   cancel      : outcome of cancelScheduledPublish                       *)
(*   button      : outcome of waitAndClickButton                           *)
(*   completion  : outcome of waitForActionCompletion                      *)
(***************************************************************************)
maxRetries == 1

UploadOutcomes == {"deleteButton", "noFileInput", "setFilesFailed", "uploadError", "timeout"}
DescriptionOutcomes == {"ok", "clickFailed", "fillFailed"}
ScheduleOutcomes == {"checked", "notFound", "notVisible", "clickFailed", "unchecked"}
CancelOutcomes == {"checked", "clickFailed", "readFailed", "unchecked"}
ButtonOutcomes == {"clicked", "notVisible", "stateFailed", "disabled", "disabledClass", "clickFailed"}
CompletionOutcomes == {"success", "failed", "timeout"}

Envs ==
    [ upload       : [1..maxRetries -> UploadOutcomes],
      description  : DescriptionOutcomes,
      failing      : BestEffortPhases \cup {"none"},
      schedule     : ScheduleOutcomes,
      scheduleTime : BOOLEAN,
      shortTitle   : BOOLEAN,
      cancel       : CancelOutcomes,
      button       : ButtonOutcomes,
      completion   : CompletionOutcomes ]

\* waitForDeleteButton, lines 815-850, by its outcome
waitForDeleteButton(outcome) ==
    CASE outcome = "deleteButton" -> Nil
      [] outcome = "uploadError"  -> Errorf("error during upload")
      [] OTHER                    -> Errorf("delete button wait timeout")

\* checkVideoUploadStatus, lines 799-812
checkVideoUploadStatus(outcome) == waitForDeleteButton(outcome)

\* uploadVideoBySelector, lines 731-796
uploadVideoBySelector(outcome) ==
    CASE outcome = "noFileInput"    -> Errorf("no file input found")
      [] outcome = "setFilesFailed" -> Wrap("set file failed", Errorf("SetInputFiles"))
      [] OTHER                      -> checkVideoUploadStatus(outcome)

\* uploadVideo, lines 705-728: the retry loop from attempt k (= i+1) on
RECURSIVE uploadVideoFrom(_, _)
uploadVideoFrom(env, k) ==
    IF k > maxRetries
    THEN Errorf("all upload methods failed")
    ELSE LET err == uploadVideoBySelector(env.upload[k]) IN
         IF err = Nil THEN Nil
         ELSE IF k - 1 >= maxRetries - 1 THEN err
         ELSE uploadVideoFrom(env, k + 1)

uploadVideo(env) == uploadVideoFrom(env, 1)

\* setScheduledPublish, lines 1128-1259
\* The read-back of the radio after the click (lines 1215-1236) is only
\* logged: an unchecked radio does not make the function return an error.
setScheduledPublish(scheduleTime, env) ==
    CASE env.schedule = "notFound"    -> Errorf("schedule button not found")
      [] env.schedule = "notVisible"  -> Wrap("schedule button not visible", Errorf("WaitFor"))
      [] env.schedule = "clickFailed" -> Wrap("click schedule button failed", Errorf("Click"))
      [] OTHER ->
           IF scheduleTime # "" /\ ~env.scheduleTime
           THEN Wrap("set schedule time failed", Errorf("setScheduleTime"))
           ELSE Nil

\* cancelScheduledPublish, lines 943-964
cancelScheduledPublish(env) ==
    CASE env.cancel = "clickFailed" -> Wrap("click unscheduled radio failed", Errorf("Click"))
      [] env.cancel = "readFailed"  -> Wrap("read radio state failed", Errorf("IsChecked"))
      [] env.cancel = "unchecked"   -> Errorf("cancel schedule failed, radio unchanged")
      [] OTHER                      -> Nil

\* waitAndClickButton, lines 967-1014
waitAndClickButton(env) ==
    CASE env.button = "notVisible"    -> Wrap("button not visible", Errorf("WaitFor"))
      [] env.button = "stateFailed"   -> Wrap("button state check failed", Errorf("IsEnabled"))
      [] env.button = "disabled"      -> Errorf("button disabled")
      [] env.button = "disabledClass" -> Errorf("button has disabled class")
      [] env.button = "clickFailed"   -> Wrap("JavaScript click failed", Errorf("Evaluate"))
      [] OTHER                        -> Nil

\* waitForActionCompletion, lines 1017-1045, by its outcome
waitForActionCompletion(env) ==
    CASE env.completion = "success" -> Nil
      [] env.completion = "failed"  -> Errorf("action failed")
      [] OTHER                      -> Errorf("action timeout")

\* performFinalAction clicking the button again after a click that failed
performFinalAction_ClickAgain(action, isScheduled, env) ==
    IF action \notin Actions
    THEN [err |-> Errorf("unsupported action"), trace |-> <<>>]
    ELSE IF action = "save_draft" /\ isScheduled /\ cancelScheduledPublish(env) # Nil
    THEN [err |-> Wrap("cancel schedule failed", cancelScheduledPublish(env)),
          trace |-> << Event("CancelSchedule", cancelScheduledPublish(env)) >>]
    ELSE [err |-> waitForActionCompletion(env),
          trace |-> (IF action = "save_draft" /\ isScheduled
                     THEN << Event("CancelSchedule", Nil) >>
                     ELSE <<>>)
                    \o << Event("Submitted", waitAndClickButton(env)),
                          Event("Submitted", Nil),
                          Event("PolledOutcome", waitForActionCompletion(env)) >>]

\* performFinalAction with a failed cancellation only logged
performFinalAction_IgnoreCancel(action, isScheduled, env) ==
    IF action \notin Actions
    THEN [err |-> Errorf("unsupported action"), trace |-> <<>>]
    ELSE [err |-> waitForActionCompletion(env),
          trace |-> (IF action = "save_draft" /\ isScheduled
                     THEN << Event("CancelSchedule", cancelScheduledPublish(env)) >>
                     ELSE <<>>)
                    \o << Event("Submitted", waitAndClickButton(env)),
                          Event("PolledOutcome", waitForActionCompletion(env)) >>]

\* performFinalAction, lines 905-940
\* Both the success and the failure branch of waitAndClickButton go on to
\* waitForActionCompletion; the click error is dropped.
performFinalAction(action, isScheduled, env) ==
    IF action \notin Actions
    THEN [err |-> Errorf("unsupported action"), trace |-> <<>>]
    ELSE LET cancelling == action = "save_draft" /\ isScheduled
             cancel == IF cancelling THEN cancelScheduledPublish(env) ELSE Nil
             cancelTrace == IF cancelling
                            THEN << Event("CancelSchedule", cancel) >> ELSE <<>>
         IN  IF cancel # Nil
             THEN [err |-> Wrap("cancel schedule failed", cancel), trace |-> cancelTrace]
             ELSE LET click == waitAndClickButton(env)
                      completion == waitForActionCompletion(env)
                  IN  [err |-> completion,
                       trace |-> cancelTrace
                                 \o << Event("Submitted", click),
                                       Event("PolledOutcome", completion) >>]

\* completeVideoUploadForm, step 8 (lines 390-400), after trace t
formFinalAction(options, env, t) ==
    IF options.Action = "" THEN [err |-> Nil, trace |-> t]
    ELSE LET final == performFinalAction(options.Action, options.Schedule, env) IN
         IF final.err # Nil
         THEN [err |-> Wrap("final action failed", final.err), trace |-> t \o final.trace]
         ELSE [err |-> Nil, trace |-> t \o final.trace]

\* completeVideoUploadForm, step 7 (lines 381-388) and on
formShortTitle(options, env, t) ==
    IF options.ShortTitle = "" THEN formFinalAction(options, env, t)
    ELSE LET shortTitle == IF env.shortTitle THEN Nil ELSE Errorf("fillShortTitle")
             t7 == t \o << Event("ShortTitle", shortTitle) >>
         IN  IF shortTitle # Nil
             THEN [err |-> Wrap("fill short title failed", shortTitle), trace |-> t7]
             ELSE formFinalAction(options, env, t7)

\* formSchedule with the scheduling error only logged, as for steps 2-5
formSchedule_LogOnly(options, env, t) ==
    IF ~options.Schedule THEN formShortTitle(options, env, t)
    ELSE formShortTitle(options, env,
             t \o << Event("ScheduleConfigured",
                           setScheduledPublish(options.ScheduleTime, env)) >>)

\* completeVideoUploadForm, step 6 (lines 372-379) and on:
\* an error of setScheduledPublish is returned, nothing after it runs
formSchedule(options, env, t) ==
    IF ~options.Schedule THEN formShortTitle(options, env, t)
    ELSE LET schedule == setScheduledPublish(options.ScheduleTime, env)
             t6 == t \o << Event("ScheduleConfigured", schedule) >>
         IN  IF schedule # Nil
             THEN [err |-> Wrap("set scheduled publish failed", schedule), trace |-> t6]
             ELSE formShortTitle(options, env, t6)

\* one best-effort field of completeVideoUploadForm (steps 2-5):
\* its error is logged and dropped
BestEffort(value, phase, env) ==
    IF value = "" THEN <<>>
    ELSE << Event(phase, IF env.failing = phase THEN Errorf("select failed") ELSE Nil) >>

\* completeVideoUploadForm, steps 2-5 (lines 340-370) and on
formOptionalFields(options, env, t) ==
    formSchedule(options, env,
                 t \o BestEffort(options.Location, "Location", env)
                   \o BestEffort(options.Collection, "Collection", env)
                   \o BestEffort(options.Link, "Link", env)
                   \o BestEffort(options.Activity, "Activity", env))

\* completeVideoUploadForm, lines 322-401; step 1 (lines 325-338) and on
completeVideoUploadForm(options, env) ==
    IF options.Description = "" THEN formOptionalFields(options, env, <<>>)
    ELSE LET description ==
                 CASE env.description = "clickFailed" ->
                          Wrap("click description editor failed", Errorf("Click"))
                   [] env.description = "fillFailed" ->
                          Wrap("fill description failed", Errorf("Fill"))
                   [] OTHER -> Nil
             t1 == << Event("Description", description) >>
         IN  IF description # Nil
             THEN [err |-> description, trace |-> t1]
             ELSE formOptionalFields(options, env, t1)

\* createVideo, lines 155-182: the error and the phases of one run
createVideoRun(task, env) ==
    LET upload == uploadVideo(env)
        t0 == << Event("MediaUploaded", upload) >>
    IN  IF upload = Nil
        THEN LET form == completeVideoUploadForm(VideoUploadOptions(task), env)
             IN  [err |-> form.err, trace |-> t0 \o form.trace]
        ELSE [err |-> upload, trace |-> t0]

\* createVideo, lines 175-181: the outcome written into the task
TaskOutcome(task, err) ==
    IF err # Nil
    THEN [task EXCEPT !.Success = FALSE, !.Error = ErrorText(err)]
    ELSE [task EXCEPT !.Success = TRUE]

\* createVideo, lines 155-182: the task it returns
createVideo(task, env) == TaskOutcome(task, createVideoRun(task, env).err)

(***************************************************************************)
(* The dispatcher.                                                         *)
(***************************************************************************)
VARIABLES
    concurrent,        \* the -concurrent flag
    input,             \* the tasks as the validator handed them over
    videoCreateTasks,  \* the slice the dispatcher works on and returns
    pc,                \* where the dispatching goroutine stands
    i,                 \* its loop index (1-based)
    semaphore,         \* number of tokens in the semaphore channel
    wg,                \* the WaitGroup counter
    worker,            \* worker[k]: the goroutine launched for index k
    page,              \* page and channelName of processTaskSequential
    pages,             \* pages[0]: page created by the sequential run,
                       \* pages[k]: page created by worker k
    logFile,           \* the log lines written (as a bag)
    capacity,          \* capacity of the semaphore channel (maxConcurrency)
    run,               \* run[k]: error and phases of the pipeline run whose
                       \* outcome went into slot k (history, not program state)
    picker,            \* the date-time picker and the call working on it
    wait,              \* a completion wait: its loop and what it has seen
    proc,              \* the process: where main stands and its exit status
    acq                \* a page acquisition: the call and what it has done

vars == << concurrent, input, videoCreateTasks, pc, i, semaphore, wg,
           worker, page, pages, logFile, capacity, run, picker, wait, proc,
           acq >>

NoRun == [err |-> Nil, trace |-> <<>>]

\* no picker is open, no wait is running
\* processTaskSequential, line 104: time.Sleep(3 * time.Second)
settleSeconds == 3

\* a call made on behalf of job `job` (0: of no job in particular)
Call(op, job) == [op |-> op, job |-> job]

\* processTaskSequential, line 86, before the call: no page the loop works
\* on, no error, no call made yet
NoPage == [page |-> "nil", channelName |-> "", pageError |-> Nil, calls |-> <<>>]
NoPicker == [pc |-> "none"]
NoWait == [pc |-> "none"]

\* the dispatcher is looked at on its own, no acquisition is looked at
NoProc == [pc |-> "none"]
NoAcq == [pc |-> "none"]

N == Len(input)

NoTask == NewTask(0, "", "", FALSE, "", "", "")

IdleWorker ==
    [ pc |-> "idle", videoCreateTask |-> NoTask, index |-> 0, i |-> 0,
      page |-> "nil", channelName |-> "", pageError |-> Nil ]

\* the line writeLogFile appends (lines 207-218)
LogLine(task, channelName) ==
    [ RowIndex |-> task.RowIndex, Success |-> task.Success,
      Error |-> task.Error, channelName |-> channelName ]

writeLogFile(log, task, channelName) == log (+) SetToBag({LogLine(task, channelName)})

(***************************************************************************)
(* Inputs of a dispatcher run.                                             *)
(***************************************************************************)
\* the kinds of task a batch is made of
PlainPublish(row)     == NewTask(row, "text", "", FALSE, "", "", "publish")
ScheduledPublish(row) == NewTask(row, "text", "", TRUE, "2025/11/2 10:30", "", "publish")
PlainDraft(row)       == NewTask(row, "", "", FALSE, "", "title", "save_draft")

BatchSeeds == 0..2

\* n tasks, rows 2..n+1 (ValidateExcelFile, lines 89-98), kinds in rotation
TaskBatch(n, seed) ==
    [ k \in 1..n |->
        CASE (k + seed) % 3 = 0 -> PlainPublish(k + 1)
          [] (k + seed) % 3 = 1 -> ScheduledPublish(k + 1)
          [] OTHER              -> PlainDraft(k + 1) ]

\* the page answers drawn for the pipelines of a dispatcher run
DispatchEnvs ==
    [ upload       : [1..maxRetries -> {"deleteButton", "uploadError"}],
      description  : {"ok"},
      failing      : {"none"},
      schedule     : {"checked"},
      scheduleTime : BOOLEAN,
      shortTitle   : {TRUE},
      cancel       : {"checked"},
      button       : {"clicked"},
      completion   : {"success"} ]

\* the browser answers drawn for the page acquisitions of a dispatcher run:
\* navigation succeeds at once, at the second attempt, or never
DispatchPageEnvs ==
    [ newPage  : BOOLEAN,
      goto     : { [k \in 1..maxNavigationAttempts |-> TRUE],
                   [k \in 1..maxNavigationAttempts |-> k > 1],
                   [k \in 1..maxNavigationAttempts |-> FALSE] },
      ready    : ReadyOutcomes,
      visible  : VisibleOnPage ]

InitWith(batches) ==
    /\ concurrent \in BOOLEAN
    /\ input \in batches
    /\ videoCreateTasks = input
    /\ pc = "start"
    /\ i = 1
    /\ semaphore = 0
    /\ wg = 0
    /\ worker = [k \in 1..Len(input) |-> IdleWorker]
    /\ page = NoPage
    /\ pages = [k \in 0..Len(input) |-> "none"]
    /\ logFile = EmptyBag
    /\ capacity = 0
    /\ run = [k \in 1..Len(input) |-> NoRun]
    /\ picker = NoPicker
    /\ wait = NoWait
    /\ proc = NoProc
    /\ acq = NoAcq

Init == InitWith({TaskBatch(n, seed) : n \in 1..MaxTasks, seed \in BatchSeeds})

\* ProcessVideoCreateTask, lines 71-79: choice of the execution mode
ProcessVideoCreateTask ==
    /\ pc = "start"
    /\ pc' = IF concurrent THEN "concurrent" ELSE "sequential"
    /\ UNCHANGED << proc, acq, picker, wait, concurrent, input, videoCreateTasks, i, semaphore, wg,
                    worker, page, pages, logFile, capacity, run >>

(***************************************************************************)
(* processTaskSequential, lines 84-107.                                    *)
(***************************************************************************)
\* lines 86-94: acquire the shared page; on failure record it and return
SeqGeneratePage(PE) ==
    /\ pc = "sequential"
    /\ \E penv \in PE :
         LET g == GeneratePage(penv) IN
         /\ pages' = [pages EXCEPT ![0] = IF g.created THEN "open" ELSE "none"]
         /\ IF g.err # Nil
            THEN IF Len(videoCreateTasks) < 2
                 THEN \* videoCreateTasks[1]: index out of range
                      /\ pc' = "panic"
                      /\ page' = [page EXCEPT !.pageError = g.err,
                                   !.calls = IF g.created THEN << Call("NewPage", 0) >>
                                             ELSE <<>>]
                      /\ UNCHANGED << videoCreateTasks, logFile, i >>
                 ELSE LET failed == [videoCreateTasks[2] EXCEPT
                                        !.Success = FALSE,
                                        !.Error = ErrorText(g.err)]
                      IN  /\ videoCreateTasks' = [videoCreateTasks EXCEPT ![2] = failed]
                          /\ logFile' = writeLogFile(logFile, failed, g.channelName)
                          /\ pc' = "returned"
                          /\ page' = [page EXCEPT !.pageError = g.err,
                                   !.calls = (IF g.created THEN << Call("NewPage", 0) >>
                                              ELSE <<>>)
                                             \o << Call("writeLogFile", 2) >>]
                          /\ UNCHANGED i
            ELSE /\ page' = [page |-> g.page, channelName |-> g.channelName,
                             pageError |-> Nil, calls |-> << Call("NewPage", 0) >>]
                 /\ i' = 1
                 /\ pc' = "seqloop"
                 /\ UNCHANGED << videoCreateTasks, logFile >>
    /\ UNCHANGED << proc, acq, picker, wait, concurrent, input, semaphore, wg, worker, capacity, run >>

\* SeqCreateVideo leaving the loop at the first failed job
SeqCreateVideo_StopOnFailure(E) ==
    /\ pc = "seqloop"
    /\ i <= Len(videoCreateTasks)
    /\ \E env \in E :
         LET r == createVideoRun(videoCreateTasks[i], env)
             done == TaskOutcome(videoCreateTasks[i], r.err)
         IN
         /\ videoCreateTasks' = [videoCreateTasks EXCEPT ![i] = done]
         /\ logFile' = writeLogFile(logFile, done, page.channelName)
         /\ run' = [run EXCEPT ![i] = r]
         /\ i' = IF done.Success THEN i + 1 ELSE Len(videoCreateTasks) + 1
    /\ page' = [page EXCEPT !.calls = @ \o
                   << Call("createVideo", i), Call("writeLogFile", i),
                      Call("Reload", i), Call(Sleep(settleSeconds), i) >>]
    /\ UNCHANGED << proc, acq, picker, wait, concurrent, input, pc, semaphore, wg, worker, pages,
                    capacity >>

\* SeqCreateVideo going to the next job without a reload and a delay
SeqCreateVideo_NoReload(E) ==
    /\ pc = "seqloop"
    /\ i <= Len(videoCreateTasks)
    /\ \E env \in E :
         LET r == createVideoRun(videoCreateTasks[i], env)
             done == TaskOutcome(videoCreateTasks[i], r.err)
         IN
         /\ videoCreateTasks' = [videoCreateTasks EXCEPT ![i] = done]
         /\ logFile' = writeLogFile(logFile, done, page.channelName)
         /\ run' = [run EXCEPT ![i] = r]
    /\ i' = i + 1
    /\ page' = [page EXCEPT !.calls = @ \o
                   << Call("createVideo", i), Call("writeLogFile", i) >>]
    /\ UNCHANGED << proc, acq, picker, wait, concurrent, input, pc, semaphore, wg, worker, pages,
                    capacity >>

\* lines 97-105: one iteration of the loop (createVideo, log, reload, settle)
SeqCreateVideo(E) ==
    /\ pc = "seqloop"
    /\ i <= Len(videoCreateTasks)
    /\ \E env \in E :
         LET r == createVideoRun(videoCreateTasks[i], env)
             done == TaskOutcome(videoCreateTasks[i], r.err)
         IN
         /\ videoCreateTasks' = [videoCreateTasks EXCEPT ![i] = done]
         /\ logFile' = writeLogFile(logFile, done, page.channelName)
         /\ run' = [run EXCEPT ![i] = r]
    /\ i' = i + 1
    /\ page' = [page EXCEPT !.calls = @ \o
                   << Call("createVideo", i), Call("writeLogFile", i),
                      Call("Reload", i), Call(Sleep(settleSeconds), i) >>]
    /\ UNCHANGED << proc, acq, picker, wait, concurrent, input, pc, semaphore, wg, worker, pages,
                    capacity >>

\* lines 96, 106: the loop is over; the deferred Close runs; return
SeqReturn ==
    /\ pc = "seqloop"
    /\ i > Len(videoCreateTasks)
    /\ pages' = [pages EXCEPT ![0] = "closed"]
    /\ pc' = "returned"
    /\ UNCHANGED << proc, acq, picker, wait, concurrent, input, videoCreateTasks, i, semaphore, wg,
                    worker, page, logFile, capacity, run >>

(***************************************************************************)
(* processTaskConcurrent, lines 110-153.                                   *)
(***************************************************************************)
\* lines 111-121: choose the worker count, make the semaphore channel
MakeSemaphore ==
    /\ pc = "concurrent"
    /\ capacity' = maxConcurrencyFor(Len(videoCreateTasks))
    /\ semaphore' = 0
    /\ wg' = 0
    /\ i' = 1
    /\ pc' = "loop"
    /\ UNCHANGED << proc, acq, picker, wait, concurrent, input, videoCreateTasks, worker, page, pages,
                    logFile, run >>

\* Launch with the closure reading the loop variable shared by all
\* iterations, which the loop has advanced by the time the worker reads it
Launch_SharedLoopVariable ==
    /\ pc = "loop"
    /\ i <= Len(videoCreateTasks)
    /\ semaphore < capacity
    /\ wg' = wg + 1
    /\ semaphore' = semaphore + 1
    /\ worker' = [worker EXCEPT ![i] =
                     [ pc |-> "start", videoCreateTask |-> videoCreateTasks[i],
                       index |-> i,
                       i |-> IF i < Len(videoCreateTasks) THEN i + 1 ELSE i,
                       page |-> "nil", channelName |-> "", pageError |-> Nil ]]
    /\ i' = i + 1
    /\ UNCHANGED << proc, acq, picker, wait, concurrent, input, videoCreateTasks, pc, page, pages,
                    logFile, capacity, run >>

\* Launch without the send on the semaphore channel
Launch_NoSemaphore ==
    /\ pc = "loop"
    /\ i <= Len(videoCreateTasks)
    /\ wg' = wg + 1
    /\ semaphore' = semaphore + 1
    /\ worker' = [worker EXCEPT ![i] =
                     [ pc |-> "start", videoCreateTask |-> videoCreateTasks[i],
                       index |-> i, i |-> i,
                       page |-> "nil", channelName |-> "", pageError |-> Nil ]]
    /\ i' = i + 1
    /\ UNCHANGED << proc, acq, picker, wait, concurrent, input, videoCreateTasks, pc, page, pages,
                    logFile, capacity, run >>

\* lines 122-148: one iteration of the launching loop.  The send on the
\* semaphore channel blocks while maxConcurrency tokens are in it.
\* The closure's i is the iteration's own variable (per-iteration loop
\* variables), so it equals index.
Launch ==
    /\ pc = "loop"
    /\ i <= Len(videoCreateTasks)
    /\ semaphore < capacity
    /\ wg' = wg + 1
    /\ semaphore' = semaphore + 1
    /\ worker' = [worker EXCEPT ![i] =
                     [ pc |-> "start", videoCreateTask |-> videoCreateTasks[i],
                       index |-> i, i |-> i,
                       page |-> "nil", channelName |-> "", pageError |-> Nil ]]
    /\ i' = i + 1
    /\ UNCHANGED << proc, acq, picker, wait, concurrent, input, videoCreateTasks, pc, page, pages,
                    logFile, capacity, run >>

\* lines 134-137: the worker acquires its page and defers its Close.
\* `defer (*page).Close()` evaluates *page at once: a nil page panics, and
\* a panic in a goroutine ends the process.
WorkerGeneratePage(k, PE) ==
    /\ pc \notin {"panic"}
    /\ worker[k].pc = "start"
    /\ \E penv \in PE :
         LET g == GeneratePage(penv) IN
         /\ IF g.page = "nil"
            THEN /\ pc' = "panic"
                 /\ UNCHANGED << worker, run, pages >>
            ELSE /\ run' = [run EXCEPT ![k] = [err |-> g.err, trace |-> g.phases]]
                 /\ pages' = [pages EXCEPT ![k] = "open"]
                 /\ worker' = [worker EXCEPT ![k] =
                        [@ EXCEPT !.pc = "paged",
                                  !.page = g.page,
                                  !.channelName = g.channelName,
                                  !.pageError = g.err,
                                  !.videoCreateTask =
                                      [@ EXCEPT !.ChannelName = g.channelName]]]
                 /\ UNCHANGED pc
    /\ UNCHANGED << proc, acq, picker, wait, concurrent, input, videoCreateTasks, i, semaphore, wg,
                    page, logFile, capacity >>

\* lines 145-147: log the outcome and store it in the slot of the index
WorkerStore(k, done) ==
    /\ logFile' = writeLogFile(logFile, done, worker[k].channelName)
    /\ videoCreateTasks' = [videoCreateTasks EXCEPT ![worker[k].index] = done]
    /\ worker' = [worker EXCEPT ![k] =
                     [@ EXCEPT !.pc = "stored", !.videoCreateTask = done]]

\* lines 138-147: run the pipeline (or record the page error), log, store
WorkerCreateVideo(k, E) ==
    /\ pc \notin {"panic"}
    /\ worker[k].pc = "paged"
    /\ IF worker[k].pageError = Nil
       THEN \E env \in E :
              LET r == createVideoRun(videoCreateTasks[worker[k].i], env) IN
              /\ WorkerStore(k, TaskOutcome(videoCreateTasks[worker[k].i], r.err))
              /\ run' = [run EXCEPT ![worker[k].index] =
                             [err |-> r.err, trace |-> @.trace \o r.trace]]
       ELSE /\ WorkerStore(k, [worker[k].videoCreateTask EXCEPT
                                  !.Success = FALSE,
                                  !.Error = ErrorText(worker[k].pageError)])
            /\ UNCHANGED run
    /\ UNCHANGED << proc, acq, picker, wait, concurrent, input, pc, i, semaphore, wg, page, pages,
                    capacity >>

\* lines 130, 131, 137: the deferred calls, run back to back in reverse
\* order when the goroutine's function returns:
\* (*page).Close(), then <-semaphore, then wg.Done()
WorkerExit(k) ==
    /\ pc \notin {"panic"}
    /\ worker[k].pc = "stored"
    /\ pages' = [pages EXCEPT ![k] = "closed"]
    /\ semaphore' = semaphore - 1
    /\ wg' = wg - 1
    /\ worker' = [worker EXCEPT ![k].pc = "done"]
    /\ UNCHANGED << proc, acq, picker, wait, concurrent, input, videoCreateTasks, pc, i,
                    page, logFile, capacity, run >>

\* Wait returning as soon as the launching loop is over
Wait_NoWait ==
    /\ pc = "loop"
    /\ i > Len(videoCreateTasks)
    /\ pc' = "returned"
    /\ UNCHANGED << proc, acq, picker, wait, concurrent, input, videoCreateTasks, i, semaphore, wg,
                    worker, page, pages, logFile, capacity, run >>

\* lines 150-152: wg.Wait() returns when the counter is zero; return
Wait ==
    /\ pc = "loop"
    /\ i > Len(videoCreateTasks)
    /\ wg = 0
    /\ pc' = "returned"
    /\ UNCHANGED << proc, acq, picker, wait, concurrent, input, videoCreateTasks, i, semaphore, wg,
                    worker, page, pages, logFile, capacity, run >>

Next ==
    \/ ProcessVideoCreateTask
    \/ SeqGeneratePage(DispatchPageEnvs)
    \/ SeqCreateVideo(DispatchEnvs)
    \/ SeqReturn
    \/ MakeSemaphore
    \/ Launch
    \/ \E k \in 1..Len(input) : WorkerGeneratePage(k, DispatchPageEnvs)
    \/ \E k \in 1..Len(input) : WorkerCreateVideo(k, DispatchEnvs)
    \/ \E k \in 1..Len(input) : WorkerExit(k)
    \/ Wait

Spec == Init /\ [][Next]_vars

(***************************************************************************)
(* One job through its pipeline: the concurrent dispatcher on a batch of   *)
(* one task, with every answer of the browser and of the page.             *)
(***************************************************************************)
\* the descriptive fields are all filled in or all left empty
TaskInputs ==
    { NewTask(2, text[1], text[2], sched[1], sched[2], text[3], action) :
        text \in { <<"", "", "">>, <<"text", "name", "title">> },
        sched \in { <<FALSE, "">>, <<TRUE, "">>, <<TRUE, "2025/11/2 10:30">> },
        action \in Actions }

InitPipeline ==
    /\ InitWith({ << task >> : task \in TaskInputs })
    /\ concurrent

NextPipeline ==
    \/ ProcessVideoCreateTask
    \/ MakeSemaphore
    \/ Launch
    \/ WorkerGeneratePage(1, PageEnvs)
    \/ WorkerCreateVideo(1, Envs)
    \/ WorkerExit(1)
    \/ Wait

SpecPipeline == InitPipeline /\ [][NextPipeline]_vars

(***************************************************************************)
(* The worker-count rule alone: the concurrent dispatcher up to the making *)
(* of the semaphore, for every task count up to MaxTaskCount.              *)
(***************************************************************************)
InitWorkers ==
    /\ InitWith({ [k \in 1..n |-> PlainPublish(k + 1)] : n \in 1..MaxTaskCount })
    /\ concurrent

NextWorkers ==
    \/ ProcessVideoCreateTask
    \/ MakeSemaphore

SpecWorkers == InitWorkers /\ [][NextWorkers]_vars

(***************************************************************************)
(* Properties.                                                             *)
(***************************************************************************)
\* a finished job is a success without error text or a failure with one
Determinate(task) ==
    \/ task.Success /\ task.Error = Nil
    \/ ~task.Success /\ task.Error # Nil

\* the workers that have started and not yet run their deferred calls
InFlight == { k \in 1..N : worker[k].pc \in {"start", "paged", "stored"} }

\* the worker of slot k has stored its outcome
Stored(k) == worker[k].pc \in {"stored", "done"}

\* event e is a phase that failed (best-effort fields do not count)
Failed(e) == e.err # Nil /\ e.phase \notin BestEffortPhases

\* error chain e is the tail of error chain full
IsSuffix(e, full) ==
    /\ Len(e) <= Len(full)
    /\ SubSeq(full, Len(full) - Len(e) + 1, Len(full)) = e

\* C1: in concurrent mode every slot only ever holds its own input job: a
\* worker works on and stores the job of its own index, and the list
\* returned has one entry per input job, entry k carrying input k's RowIndex.
C1_ResultOrder ==
    concurrent =>
      /\ Len(videoCreateTasks) = Len(input)
      /\ \A k \in 1..N :
           /\ videoCreateTasks[k].RowIndex = input[k].RowIndex
           /\ worker[k].pc # "idle" =>
                /\ worker[k].index = k
                /\ worker[k].videoCreateTask.RowIndex = input[k].RowIndex
           /\ (pc = "returned" /\ run[k].err = Nil) => videoCreateTasks[k].Success

\* C1 witness: a concurrent run of at least four jobs has returned with
\* both successful and failed jobs
C1_Witness ==
    /\ concurrent
    /\ pc = "returned"
    /\ N >= 4
    /\ \E j, k \in 1..N : videoCreateTasks[j].Success /\ ~videoCreateTasks[k].Success

\* C2: once the dispatcher has returned, every job is a success with an
\* empty error or a failure with a non-empty error
C2_OutcomeDeterminate ==
    pc = "returned" => \A k \in 1..N : Determinate(videoCreateTasks[k])

\* C3: in concurrent mode a failed page acquisition never ends the process,
\* and the job whose page failed is stored as a failure with an error text
C3_PageFailureIsolated ==
    concurrent =>
      /\ pc # "panic"
      /\ \A k \in 1..N :
           (Stored(k) /\ worker[k].pageError # Nil) =>
               /\ ~videoCreateTasks[k].Success
               /\ videoCreateTasks[k].Error # Nil

\* C4: in sequential mode, once the page is acquired, the loop has run the
\* pipeline on every job before the current one whatever their outcomes,
\* each processed job holds the outcome of its own run on its own input,
\* the jobs still to come are untouched, and the run returns only after
\* the last job
C4_SequentialContinues ==
    (~concurrent /\ pc \in {"seqloop", "returned"} /\ page.page # "nil") =>
      /\ pc = "returned" => i = N + 1
      /\ \A k \in 1..N :
           IF k < i
           THEN /\ run[k].trace # <<>>
                /\ videoCreateTasks[k] = TaskOutcome(input[k], run[k].err)
           ELSE /\ run[k] = NoRun
                /\ videoCreateTasks[k] = input[k]

\* C4 witness: a sequential run has returned, a job failed in its pipeline
\* and a later job succeeded
C4_Witness ==
    /\ ~concurrent
    /\ pc = "returned"
    /\ \E j, k \in 1..N :
         /\ j < k
         /\ run[j].trace # <<>>
         /\ ~videoCreateTasks[j].Success
         /\ videoCreateTasks[k].Success

\* C5: in concurrent mode the number of workers started and not finished
\* never exceeds the worker count chosen, which is 3, 5 or 10
C5_InFlightBounded ==
    concurrent =>
      /\ Cardinality(InFlight) <= capacity
      /\ Cardinality(InFlight) = semaphore
      /\ pc \notin {"start", "concurrent"} => capacity \in {3, 5, 10}

\* C5 witness: as many workers in flight as the worker count allows while
\* jobs are still waiting to be launched
C5_Witness ==
    /\ concurrent
    /\ pc = "loop"
    /\ capacity > 0
    /\ Cardinality(InFlight) = capacity
    /\ i <= N

\* C6: the worker count is 3 up to 50 jobs, 5 from 51 to 100 jobs, and 10
\* above 100 jobs
C6_WorkerCountTiers ==
    pc = "loop" =>
      capacity = IF N <= 50 THEN 3 ELSE IF N <= 100 THEN 5 ELSE 10

\* C7: when the concurrent dispatcher returns, every worker launched has
\* run to its end and its outcome is in its slot
C7_ReturnAfterAllWorkers ==
    (concurrent /\ pc = "returned") =>
      /\ wg = 0
      /\ \A k \in 1..N :
           /\ worker[k].pc = "done"
           /\ videoCreateTasks[k] = worker[k].videoCreateTask

\* C7 witness: the concurrent dispatcher has returned from a run with more
\* jobs than workers
C7_Witness ==
    /\ concurrent
    /\ pc = "returned"
    /\ N > capacity
    /\ \A k \in 1..N : worker[k].pc = "done"

\* C8: no page is left open when a worker has ended or when the dispatcher
\* has returned
C8_PagesClosed ==
    /\ pc = "returned" => \A o \in DOMAIN pages : pages[o] # "open"
    /\ \A k \in 1..N : worker[k].pc = "done" => pages[k] # "open"

\* C9: in a finished pipeline run no phase was entered after a phase that
\* failed, the failed phase's error is the job's error, and a run with no
\* failed phase is a success
C9_PhasesInOrder ==
    \A k \in 1..N :
      Stored(k) =>
        LET t == run[k].trace
            task == videoCreateTasks[k]
        IN  /\ \A j \in 1..Len(t) :
                 Failed(t[j]) =>
                     /\ j = Len(t)
                     /\ ~task.Success
                     /\ IsSuffix(t[j].err, task.Error)
            /\ (\A j \in 1..Len(t) : ~Failed(t[j])) => task.Success

\* C10: a job whose scheduling step returned an error ends as a failure
\* carrying that error, and its submit phase was never entered
C10_ScheduleFailureFatal ==
    \A k \in 1..N :
      Stored(k) =>
        LET t == run[k].trace
            task == videoCreateTasks[k]
        IN  \A j \in 1..Len(t) :
              (t[j].phase = "ScheduleConfigured" /\ t[j].err # Nil) =>
                  /\ ~task.Success
                  /\ task.Error = Wrap("set scheduled publish failed", t[j].err)
                  /\ \A m \in 1..Len(t) :
                       t[m].phase \notin {"Submitted", "PolledOutcome"}

\* C10 witness: a stored job that asked for scheduling and whose scheduling
\* step returned an error
C10_Witness ==
    \E k \in 1..N :
      /\ Stored(k)
      /\ videoCreateTasks[k].Schedule
      /\ \E j \in 1..Len(run[k].trace) :
           /\ run[k].trace[j].phase = "ScheduleConfigured"
           /\ run[k].trace[j].err # Nil

(***************************************************************************)
(* The three-job scenario: the sequential dispatcher on a batch whose      *)
(* second job asks for scheduling at a given time and for a draft.         *)
(***************************************************************************)
ScheduledDraft(row) == NewTask(row, "text", "", TRUE, "2025/11/2 10:30", "", "save_draft")

\* the page answers drawn for the pipelines of the scenario
ScenarioEnvs ==
    [ upload       : [1..maxRetries -> {"deleteButton", "uploadError"}],
      description  : {"ok"},
      failing      : {"none"},
      schedule     : {"checked"},
      scheduleTime : BOOLEAN,
      shortTitle   : {TRUE},
      cancel       : CancelOutcomes,
      button       : {"clicked", "disabled"},
      completion   : CompletionOutcomes ]

InitScenario ==
    /\ InitWith({ << PlainPublish(2), ScheduledDraft(3), PlainPublish(4) >> })
    /\ ~concurrent

NextScenario ==
    \/ ProcessVideoCreateTask
    \/ SeqGeneratePage(DispatchPageEnvs)
    \/ SeqCreateVideo(ScenarioEnvs)
    \/ SeqReturn

SpecScenario == InitScenario /\ [][NextScenario]_vars

\* the trace t has an event of phase ph
HasPhase(t, ph) == \E j \in 1..Len(t) : t[j].phase = ph

\* the trace t has an event of phase ph that returned an error
HasFailedPhase(t, ph) == \E j \in 1..Len(t) : t[j].phase = ph /\ t[j].err # Nil

\* C12: a job whose submit button was not clicked (not visible, disabled,
\* click failed) is stored as a failure with an error, never as a success
C12_SubmitFailureFatal ==
    \A k \in 1..N :
      (Stored(k) /\ HasFailedPhase(run[k].trace, "Submitted")) =>
          /\ ~videoCreateTasks[k].Success
          /\ videoCreateTasks[k].Error # Nil

\* C13: in a job without scheduling, a failure to fill the description,
\* the location, the collection, the link or the activity does not end the
\* pipeline: the step after the failed field is still entered
C13_OptionalFieldsBestEffort ==
    \A k \in 1..N :
      (Stored(k) /\ ~videoCreateTasks[k].Schedule /\ videoCreateTasks[k].Action # "") =>
          LET t == run[k].trace IN
          \A j \in 1..Len(t) :
            (t[j].phase \in {"Description"} \cup BestEffortPhases /\ t[j].err # Nil) =>
                j < Len(t)

\* C14: in a sequential run that acquired its page and returned, a job that
\* asked for scheduling at a given time and for a draft is a failure with
\* an error and its submit phase was never entered
C14_ScheduledDraftRejected ==
    (~concurrent /\ pc = "returned" /\ page.page # "nil") =>
      \A k \in 1..N :
        (/\ input[k].Schedule
         /\ input[k].ScheduleTime # ""
         /\ input[k].Action = "save_draft") =>
            /\ ~videoCreateTasks[k].Success
            /\ videoCreateTasks[k].Error # Nil
            /\ ~HasPhase(run[k].trace, "Submitted")

(***************************************************************************)
(* The completion waits, poll by poll.  What the page shows at a poll is   *)
(* drawn afresh at every poll.                                             *)
(***************************************************************************)
\* the variables of the dispatcher, which the waits and the picker leave alone
dispatcherVars == << concurrent, input, videoCreateTasks, pc, i, semaphore, wg,
                     worker, page, pages, logFile, capacity, run >>

\* no dispatcher is running
IdleDispatcher ==
    /\ concurrent = FALSE
    /\ input = <<>>
    /\ videoCreateTasks = <<>>
    /\ pc = "off"
    /\ i = 1
    /\ semaphore = 0
    /\ wg = 0
    /\ worker = <<>>
    /\ page = NoPage
    /\ pages = [k \in 0..0 |-> "none"]
    /\ logFile = EmptyBag
    /\ capacity = 0
    /\ run = <<>>

\* waitForActionCompletion, line 1020: maxWait := 300
maxWaitAction == 300
\* waitForActionCompletion, line 1022: time.Sleep(1 * time.Second)
actionPollSeconds == 1
\* waitForDeleteButton, line 819: maxWait := 120
maxWaitUpload == 120
\* waitForDeleteButton, line 822: time.Sleep(2 * time.Second)
uploadPollSeconds == 2
\* waitForDeleteButton, line 844: 5*time.Minute, in seconds
uploadDeadlineSeconds == 5 * 60

\* what isActionSuccessful and hasActionFailed would answer at one moment
ActionMarkers == [success : BOOLEAN, failure : BOOLEAN]

\* what the page shows at one poll of the upload wait: a usable delete
\* button, a visible error element, and whether reading the text of the body
\* returns an error
UploadMarkers == [deleteButton : BOOLEAN, errorMarker : BOOLEAN, bodyTextError : BOOLEAN]

\* seconds the checks of one poll of the upload wait may take
CheckSeconds == 0..1

\* hasDeleteButton, lines 853-874
hasDeleteButton(m) == m.deleteButton

\* hasUploadError, lines 877-902: of bodyLocator.TextContent() the text is
\* dropped and the error is kept in errorText; true is returned only when
\* an error element is visible and that error is not nil
hasUploadError(m) == m.errorMarker /\ m.bodyTextError

\* a wait at its first line
StartWait(kind) ==
    [ pc |-> "polling", kind |-> kind, i |-> 0, elapsed |-> 0, quiet |-> 0,
      at |-> "none", seen |-> <<>>, err |-> Nil ]

\* waitForActionCompletion, lines 1021-1038: one iteration of the loop
ActionWaitPoll ==
    /\ wait.pc = "polling"
    /\ wait.kind = "action"
    /\ wait.i < maxWaitAction
    /\ \E m \in ActionMarkers :
         LET w == [wait EXCEPT !.elapsed = @ + actionPollSeconds,
                               !.seen = m, !.at = "poll"]
         IN  wait' = IF m.success
                     THEN [w EXCEPT !.pc = "returned", !.err = Nil]
                     ELSE IF m.failure
                     THEN [w EXCEPT !.pc = "returned", !.err = Errorf("action failed")]
                     ELSE [w EXCEPT !.i = @ + 1, !.quiet = @ + 1]
    /\ UNCHANGED << proc, acq, dispatcherVars, picker >>

\* ActionWaitFinal returning the timeout without looking at the page again
ActionWaitFinal_NoRecheck ==
    /\ wait.pc = "polling"
    /\ wait.kind = "action"
    /\ wait.i >= maxWaitAction
    /\ \E m \in ActionMarkers :
         wait' = [wait EXCEPT !.seen = m, !.at = "final", !.pc = "returned",
                              !.err = Errorf("action timeout")]
    /\ UNCHANGED << proc, acq, dispatcherVars, picker >>

\* waitForActionCompletion, lines 1039-1044: the check after the loop
ActionWaitFinal ==
    /\ wait.pc = "polling"
    /\ wait.kind = "action"
    /\ wait.i >= maxWaitAction
    /\ \E m \in ActionMarkers :
         wait' = [wait EXCEPT !.seen = m, !.at = "final", !.pc = "returned",
                              !.err = IF m.success THEN Nil
                                      ELSE Errorf("action timeout")]
    /\ UNCHANGED << proc, acq, dispatcherVars, picker >>

InitActionWait ==
    /\ IdleDispatcher
    /\ proc = NoProc
    /\ acq = NoAcq
    /\ picker = NoPicker
    /\ wait = StartWait("action")

NextActionWait ==
    \/ ActionWaitPoll
    \/ ActionWaitFinal

SpecActionWait == InitActionWait /\ [][NextActionWait]_vars

\* waitForDeleteButton, lines 821-847: one iteration of the loop
UploadWaitPoll ==
    /\ wait.pc = "polling"
    /\ wait.kind = "upload"
    /\ wait.i < maxWaitUpload
    /\ \E m \in UploadMarkers, d \in CheckSeconds :
         LET w == [wait EXCEPT !.elapsed = @ + uploadPollSeconds + d,
                               !.seen = m, !.at = "poll", !.i = @ + 1]
         IN  wait' = IF hasDeleteButton(m)
                     THEN [w EXCEPT !.pc = "returned", !.err = Nil]
                     ELSE IF hasUploadError(m)
                     THEN [w EXCEPT !.pc = "returned", !.err = Errorf("upload error")]
                     ELSE IF w.elapsed > uploadDeadlineSeconds
                     THEN [w EXCEPT !.pc = "returned",
                                    !.err = Errorf("delete button timeout (5 minutes)")]
                     ELSE [w EXCEPT !.quiet = @ + 1]
    /\ UNCHANGED << proc, acq, dispatcherVars, picker >>

\* waitForDeleteButton, line 849: the loop is over
UploadWaitFinal ==
    /\ wait.pc = "polling"
    /\ wait.kind = "upload"
    /\ wait.i >= maxWaitUpload
    /\ wait' = [wait EXCEPT !.at = "final", !.pc = "returned",
                            !.err = Errorf("delete button timeout")]
    /\ UNCHANGED << proc, acq, dispatcherVars, picker >>

InitUploadWait ==
    /\ IdleDispatcher
    /\ proc = NoProc
    /\ acq = NoAcq
    /\ picker = NoPicker
    /\ wait = StartWait("upload")

NextUploadWait ==
    \/ UploadWaitPoll
    \/ UploadWaitFinal

SpecUploadWait == InitUploadWait /\ [][NextUploadWait]_vars

\* the wait has returned one of its timeout errors
TimedOut ==
    /\ wait.pc = "returned"
    /\ wait.err \in { Errorf("action timeout"), Errorf("delete button timeout"),
                      Errorf("delete button timeout (5 minutes)") }

\* C15: a poll of the action wait at which the failure marker is visible
\* makes the wait return its failure at that poll
C15_FailureNotPreempted ==
    (wait.kind = "action" /\ wait.at = "poll" /\ wait.seen.failure) =>
        /\ wait.pc = "returned"
        /\ wait.err = Errorf("action failed")

\* C16: a poll of the upload wait at which an error element is visible and
\* no delete button is makes the wait return its failure at that poll
C16_UploadErrorEndsWait ==
    (/\ wait.kind = "upload"
     /\ wait.at = "poll"
     /\ wait.seen.errorMarker
     /\ ~wait.seen.deleteButton) =>
        /\ wait.pc = "returned"
        /\ wait.err = Errorf("upload error")

C18_UploadDeadline ==
    (wait.kind = "upload" /\ TimedOut) => wait.elapsed >= uploadDeadlineSeconds

(***************************************************************************)
(* The date-time picker.  A function working on the picker takes the       *)
(* picker w as the page shows it and the answers env of the page, and      *)
(* returns its error and the picker as it leaves it.                       *)
(***************************************************************************)
\* return nil / return an error, with the picker as it is left
Ok(w) == [err |-> Nil, w |-> w]
Fail(err, w) == [err |-> err, w |-> w]

\* if err != nil { return fmt.Errorf("prefix: %v", err) }
Wrapped(prefix, r) == IF r.err # Nil THEN Fail(Wrap(prefix, r.err), r.w) ELSE r
Checked(prefix, err, w) == IF err # Nil THEN Fail(Wrap(prefix, err), w) ELSE Ok(w)

\* A function of several steps is the composition of its steps: a step
\* takes the result r of the steps before it, and does nothing when they
\* have returned an error.

\* the picker showing year and month, with no day selected and the time at
\* 00:00; next, prev, clicked, hourClicks and minuteClicks record what has
\* been clicked on it, steps which day selections were entered
Widget(year, month) ==
    [ year |-> year, month |-> month, day |-> 0, hour |-> 0, minute |-> 0,
      next |-> 0, prev |-> 0, clicked |-> <<>>, hourClicks |-> <<>>,
      minuteClicks |-> <<>>, steps |-> {} ]

\* the picker after a click on its right arrow: the next month
ClickRightArrow(w) ==
    [w EXCEPT !.month = IF w.month = 12 THEN 1 ELSE w.month + 1,
              !.year = IF w.month = 12 THEN w.year + 1 ELSE w.year,
              !.next = @ + 1]

\* what the right arrow does: "missing" no such button, "clickFailsFirst"
\* and "clickFailsThird" the click of that rank returns an error, "stuck"
\* the clicks succeed and the picker stays on its month
ArrowOutcomes == {"ok", "missing", "clickFailsFirst", "clickFailsThird", "stuck"}

\* getCurrentMonth, lines 2123-2157: the month of the second panel label;
\* without a readable label getCurrentMonthFromTable returns its error
getCurrentMonth(w, env) ==
    IF env.monthReadable
    THEN [err |-> Nil, value |-> w.month]
    ELSE [err |-> Errorf("cannot determine current month"), value |-> 0]

\* selectSpecificMonth with the distance not wrapped over the year's end
monthDiff_NoWrap(currentMonth, targetMonth) ==
    IF targetMonth - currentMonth < 0 THEN 0 ELSE targetMonth - currentMonth

\* selectSpecificMonth, lines 1460-1463: the number of clicks
monthDiff(currentMonth, targetMonth) ==
    IF targetMonth - currentMonth < 0
    THEN targetMonth - currentMonth + 12
    ELSE targetMonth - currentMonth

\* selectSpecificMonth, lines 1474-1488: clicks k..diff on the right arrow
RECURSIVE clickRightArrows(_, _, _, _)
clickRightArrows(w, k, diff, env) ==
    IF k > diff THEN Ok(w)
    ELSE IF \/ env.arrow = "clickFailsFirst" /\ k = 1
            \/ env.arrow = "clickFailsThird" /\ k = 3
         THEN Fail(Wrap("click right arrow failed", Errorf("Click")),
                   [w EXCEPT !.next = @ + 1])
         ELSE clickRightArrows(IF env.arrow = "stuck"
                               THEN [w EXCEPT !.next = @ + 1]
                               ELSE ClickRightArrow(w),
                               k + 1, diff, env)

\* selectSpecificMonth, lines 1490-1501: the month is read again and compared
verifyFinalMonth(r, targetMonth, env) ==
    LET finalMonth == getCurrentMonth(r.w, env) IN
    IF r.err # Nil THEN r
    ELSE IF finalMonth.err # Nil
    THEN Fail(Wrap("verify final month failed", finalMonth.err), r.w)
    ELSE IF finalMonth.value = targetMonth THEN r
    ELSE Fail(Errorf("month switch failed"), r.w)

\* selectSpecificMonth, lines 1454-1502, with the current month read
selectMonthFrom(w, currentMonth, targetMonth, env) ==
    IF currentMonth = targetMonth THEN Ok(w)
    ELSE IF env.arrow = "missing" THEN Fail(Errorf("right arrow not found"), w)
    ELSE verifyFinalMonth(
             clickRightArrows(w, 1, monthDiff(currentMonth, targetMonth), env),
             targetMonth, env)

\* selectSpecificMonth, lines 1443-1502
selectSpecificMonth(w, targetMonth, env) ==
    LET current == getCurrentMonth(w, env) IN
    IF current.err # Nil
    THEN Fail(Wrap("get current month failed", current.err), w)
    ELSE selectMonthFrom(w, current.value, targetMonth, env)

\* navigateToMonth, lines 1505-1510
navigateToMonth(w, targetMonth, env) == selectSpecificMonth(w, targetMonth, env)

\* the answers of the page that month navigation looks at
MonthEnvs == [monthReadable : BOOLEAN, arrow : ArrowOutcomes]

Months == 1..12

\* a call on the picker about to start; shown is the picker as it was
StartPicker(call, w, target, env) ==
    [ pc |-> call, shown |-> w, w |-> w, target |-> target, env |-> env, err |-> Nil ]

\* navigateToMonth called and returned
NavigateToMonth ==
    /\ picker.pc = "navigateToMonth"
    /\ LET r == navigateToMonth(picker.w, picker.target.month, picker.env)
       IN  picker' = [picker EXCEPT !.pc = "returned", !.w = r.w, !.err = r.err]
    /\ UNCHANGED << proc, acq, dispatcherVars, wait >>

InitMonth ==
    /\ IdleDispatcher
    /\ proc = NoProc
    /\ acq = NoAcq
    /\ wait = NoWait
    /\ \E c \in Months, t \in Months, env \in MonthEnvs :
         picker = StartPicker("navigateToMonth", Widget(2025, c),
                              [year |-> 2025, month |-> t, day |-> 15,
                               hour |-> 10, minute |-> 30], env)

NextMonth == NavigateToMonth

SpecMonth == InitMonth /\ [][NextMonth]_vars

\* C19: month navigation from displayed month c to target month t never
\* clicks a previous-month control and never clicks the right arrow more
\* than (t - c) mod 12 times; with the month label readable and the arrow
\* there and clickable it clicks it exactly (t - c) mod 12 times; with
\* c = t it clicks nothing and returns success
C19_ForwardMonthClicks ==
    picker.pc = "returned" =>
      LET c == picker.shown.month
          t == picker.target.month
          delta == (t - c + 12) % 12
      IN  /\ picker.w.prev = 0
          /\ picker.w.next <= delta
          /\ (picker.env.monthReadable /\ picker.env.arrow \in {"ok", "stuck"}) =>
                 picker.w.next = delta
          /\ picker.err = Nil => (picker.w.next = delta /\ picker.w.month = t)
          /\ (picker.env.monthReadable /\ c = t) =>
                 (picker.w.next = 0 /\ picker.err = Nil)

\* C19 witness: month navigation has returned success after clicking past
\* the year's end, from a later displayed month to an earlier target month
C19_Witness ==
    /\ picker.pc = "returned"
    /\ picker.err = Nil
    /\ picker.shown.month = 11
    /\ picker.target.month = 2
    /\ picker.w.next = 3

(***************************************************************************)
(* The whole of setDateTimePicker: year, month, day, hour and minute.      *)
(***************************************************************************)
\* the one thing that goes wrong on the page during a call, if any
Faults ==
    { "none", "open", "yearNotFound", "yearClick", "dayClick", "dayStuck",
      "timePicker", "hourNotFound", "hourClick", "hourStuck", "hourUnread",
      "minuteNotFound", "minuteClick", "minuteStuck", "minuteUnread" }

\* the panel detectAndSetDateTime finds open
Panels == {"year", "month", "day", "none"}

\* a cell of the day table: its number (0 for a text that is no number) and
\* whether its class marks it disabled
Cell(text, disabled) == [text |-> text, disabled |-> disabled]

\* error texts that carry the day asked for
DayNotFound(day) == "day " \o ToString(day) \o " not found"
DayNotSelectable(day) == "day " \o ToString(day) \o " not selectable"
ClickDayFailed(day) == "click day " \o ToString(day) \o " failed"

\* getCurrentYear, lines 2189-2226
getCurrentYear(w, env) ==
    IF env.yearReadable
    THEN [err |-> Nil, value |-> w.year]
    ELSE [err |-> Errorf("year label not found"), value |-> 0]

\* verifyCurrentYearAndMonth, lines 1542-1567
verifyCurrentYearAndMonth(w, target, env) ==
    LET currentYear == getCurrentYear(w, env)
        currentMonth == getCurrentMonth(w, env)
    IN  IF currentYear.err # Nil THEN Wrap("get current year failed", currentYear.err)
        ELSE IF currentMonth.err # Nil
        THEN Wrap("get current month failed", currentMonth.err)
        ELSE IF currentYear.value = target.year /\ currentMonth.value = target.month
        THEN Nil
        ELSE Errorf("year and month do not match")

\* the picker after a click on a year: that year, the month as it was
ClickYear(w, year) == [w EXCEPT !.year = year]

\* navigateToYear, lines 1795-1834: the year is clicked and not read back
navigateToYear(w, targetYear, env) ==
    CASE env.fault = "yearNotFound" -> Fail(Errorf("year not selectable"), w)
      [] env.fault = "yearClick" ->
             Fail(Wrap("click year failed", Errorf("Click")), w)
      [] OTHER -> Ok(ClickYear(w, targetYear))

\* navigateToYearAndMonth, lines 2101-2109: a year that cannot be read is
\* logged and the year is left as it is
setYearIfNeeded(w, targetYear, env) ==
    LET currentYear == getCurrentYear(w, env) IN
    IF currentYear.err = Nil /\ currentYear.value # targetYear
    THEN Wrapped("set year failed", navigateToYear(w, targetYear, env))
    ELSE Ok(w)

\* navigateToYearAndMonth, lines 2114-2116
setMonthAfterYear(r, targetMonth, env) ==
    IF r.err # Nil THEN r
    ELSE Wrapped("set month failed", navigateToMonth(r.w, targetMonth, env))

\* navigateToYearAndMonth, lines 2094-2120
navigateToYearAndMonth(w, target, env) ==
    setMonthAfterYear(setYearIfNeeded(w, target.year, env), target.month, env)

\* selectSpecificDayOptimized offered every cell of the table
availableDates_All(grid) == grid

\* selectSpecificDayOptimized, line 1640: the cells without the disabled class
availableDates(grid) ==
    LET enabled(c) == ~c.disabled IN SelectSeq(grid, enabled)

\* selectSpecificDay, lines 1583-1629: the first cell from k on whose number
\* is the day and which is not disabled; 0 when there is none
RECURSIVE findDay(_, _, _)
findDay(cells, k, day) ==
    IF k > Len(cells) THEN 0
    ELSE IF cells[k].text = day /\ ~cells[k].disabled THEN k
    ELSE findDay(cells, k + 1, day)

\* selectSpecificDayOptimized, lines 1649-1687: the first of the cells
\* offered from k on whose number is the day; 0 when there is none
RECURSIVE findAvailableDay(_, _, _)
findAvailableDay(cells, k, day) ==
    IF k > Len(cells) THEN 0
    ELSE IF cells[k].text = day THEN k
    ELSE findAvailableDay(cells, k + 1, day)

\* the picker after a click on a day cell
ClickDay(w, cell, env) ==
    [w EXCEPT !.clicked = Append(@, cell),
              !.day = IF env.fault = "dayStuck" THEN @ ELSE cell.text]

\* verifyDaySelection, lines 1760-1792
verifyDaySelection(w, expectedDay) ==
    IF w.day = 0 THEN Errorf("no selected day")
    ELSE IF w.day = expectedDay THEN Nil
    ELSE Errorf("day selection verification failed")

\* selectSpecificDay, lines 1622-1627: the selection is verified after the click
verifyClickedDay(r, day) ==
    IF r.err # Nil THEN r
    ELSE Checked("day selection check failed", verifyDaySelection(r.w, day), r.w)

\* verifyDaySelectionByNumber, lines 1694-1721
verifyDaySelectionByNumber(w, expectedDay) ==
    IF w.day = 0 THEN Errorf("no selected day")
    ELSE IF w.day = expectedDay THEN Nil
    ELSE Errorf("day selection mismatch")

\* selectSpecificDayOptimized, lines 1680-1685: the selection is verified
\* after the click
verifyClickedDayByNumber(r, day) ==
    IF r.err # Nil THEN r
    ELSE Checked("day selection check failed",
                 verifyDaySelectionByNumber(r.w, day), r.w)

\* selectSpecificDay, lines 1613-1617, and selectSpecificDayOptimized,
\* lines 1671-1675: the click on the cell found
clickDayCell(w, cell, day, env) ==
    IF env.fault = "dayClick"
    THEN Fail(Wrap(ClickDayFailed(day), Errorf("Click")),
              [w EXCEPT !.clicked = Append(@, cell)])
    ELSE Ok(ClickDay(w, cell, env))

\* the picker with a day selection entered
Entered(w, step) == [w EXCEPT !.steps = @ \cup {step}]

\* selectSpecificDay, lines 1570-1633
selectSpecificDay(w, day, env) ==
    LET k == findDay(env.grid, 1, day) IN
    IF k = 0 THEN Fail(Errorf(DayNotFound(day)), Entered(w, "selectSpecificDay"))
    ELSE verifyClickedDay(
             clickDayCell(Entered(w, "selectSpecificDay"), env.grid[k], day, env),
             day)

\* selectSpecificDayOptimized, lines 1636-1691
selectSpecificDayOptimized(w, day, env) ==
    LET k == findAvailableDay(availableDates(env.grid), 1, day) IN
    IF k = 0
    THEN Fail(Errorf(DayNotSelectable(day)), Entered(w, "selectSpecificDayOptimized"))
    ELSE verifyClickedDayByNumber(
             clickDayCell(Entered(w, "selectSpecificDayOptimized"),
                          availableDates(env.grid)[k], day, env),
             day)

\* openTimePicker, lines 1868-1901
openTimePicker(env) ==
    IF env.fault = "timePicker" THEN Errorf("time picker did not open") ELSE Nil

\* fmt.Sprintf("%02d", n), lines 1905 and 1946
TwoDigits(n) == IF n < 10 THEN "0" \o ToString(n) ELSE ToString(n)

\* the hour and minute options of the time picker, in the order of the page
HourOptions == [k \in 1..24 |-> TwoDigits(k - 1)]
MinuteOptions == [k \in 1..60 |-> TwoDigits(k - 1)]

\* Locator("... li:has-text(text)").First(): the rank of the first option
\* with the text, 0 when Count() is 0; has-text looks for the text inside
\* the option's, which for two texts of two digits is equality
RECURSIVE firstOption(_, _, _)
firstOption(options, text, k) ==
    IF k > Len(options) THEN 0
    ELSE IF options[k] = text THEN k
    ELSE firstOption(options, text, k + 1)

HourMismatch(expected, actual) ==
    "hour mismatch: expected=" \o expected \o ", actual=" \o actual
MinuteMismatch(expected, actual) ==
    "minute mismatch: expected=" \o expected \o ", actual=" \o actual

\* verifyHourSelection that accepts whatever is highlighted
verifyHourSelection_Any(w, expectedHour, env) == Ok(w)

\* verifyHourSelection, lines 1986-2006: the text of the highlighted hour
verifyHourSelection(w, expectedHour, env) ==
    IF env.fault = "hourUnread" THEN Fail(Errorf("selected hour not found"), w)
    ELSE IF TwoDigits(w.hour) = expectedHour THEN Ok(w)
    ELSE Fail(Errorf(HourMismatch(expectedHour, TwoDigits(w.hour))), w)

\* setHourWithScroll, lines 1928-1941: the click on the option of rank k and
\* the read-back
clickHourOption(w, k, env) ==
    IF env.fault = "hourClick"
    THEN Fail(Wrap("click hour failed", Errorf("Click")),
              [w EXCEPT !.hourClicks = Append(@, HourOptions[k])])
    ELSE verifyHourSelection(
             [w EXCEPT !.hourClicks = Append(@, HourOptions[k]),
                       !.hour = IF env.fault = "hourStuck" THEN @ ELSE k - 1],
             HourOptions[k], env)

\* setHourWithScroll, lines 1904-1942
setHourWithScroll(w, hour, env) ==
    IF env.fault = "hourNotFound" \/ firstOption(HourOptions, TwoDigits(hour), 1) = 0
    THEN Fail(Errorf("hour option not found"), w)
    ELSE IF HourOptions[w.hour + 1] = TwoDigits(hour) THEN Ok(w)
    ELSE clickHourOption(w, firstOption(HourOptions, TwoDigits(hour), 1), env)

\* verifyMinuteSelection, lines 2009-2029
verifyMinuteSelection(w, expectedMinute, env) ==
    IF env.fault = "minuteUnread" THEN Fail(Errorf("selected minute not found"), w)
    ELSE IF TwoDigits(w.minute) = expectedMinute THEN Ok(w)
    ELSE Fail(Errorf(MinuteMismatch(expectedMinute, TwoDigits(w.minute))), w)

\* setMinuteWithScroll, lines 1969-1982
clickMinuteOption(w, k, env) ==
    IF env.fault = "minuteClick"
    THEN Fail(Wrap("click minute failed", Errorf("Click")),
              [w EXCEPT !.minuteClicks = Append(@, MinuteOptions[k])])
    ELSE verifyMinuteSelection(
             [w EXCEPT !.minuteClicks = Append(@, MinuteOptions[k]),
                       !.minute = IF env.fault = "minuteStuck" THEN @ ELSE k - 1],
             MinuteOptions[k], env)

\* setMinuteWithScroll, lines 1945-1983
setMinuteWithScroll(w, minute, env) ==
    IF env.fault = "minuteNotFound"
       \/ firstOption(MinuteOptions, TwoDigits(minute), 1) = 0
    THEN Fail(Errorf("minute option not found"), w)
    ELSE IF MinuteOptions[w.minute + 1] = TwoDigits(minute) THEN Ok(w)
    ELSE clickMinuteOption(w, firstOption(MinuteOptions, TwoDigits(minute), 1), env)

\* setTimeSelection, lines 1849-1851
setHourAfterOpen(r, hour, env) ==
    IF r.err # Nil THEN r
    ELSE Wrapped("set hour failed", setHourWithScroll(r.w, hour, env))

\* setTimeSelection, lines 1854-1856
setMinuteAfterHour(r, minute, env) ==
    IF r.err # Nil THEN r
    ELSE Wrapped("set minute failed", setMinuteWithScroll(r.w, minute, env))

\* setTimeSelection, lines 1837-1865; confirmTimeSelection (lines 2032-2056)
\* and verifyTimeInputValue (lines 2059-2076) only log
setTimeSelection(w, target, env) ==
    setMinuteAfterHour(
        setHourAfterOpen(Checked("open time picker failed", openTimePicker(env), w),
                         target.hour, env),
        target.minute, env)

\* setDateTimeFromDayPanel, lines 1521-1527: the year and month are set
\* when the panel does not show the target's
correctYearAndMonth(w, target, env) ==
    IF verifyCurrentYearAndMonth(w, target, env) # Nil
    THEN Wrapped("correct year and month failed",
                 navigateToYearAndMonth(w, target, env))
    ELSE Ok(w)

\* setDateTimeFromDayPanel, lines 1530-1532
selectDayAfterMonth(r, day, env) ==
    IF r.err # Nil THEN r
    ELSE Wrapped("select day failed", selectSpecificDay(r.w, day, env))

\* setDateTimeFromDayPanel, line 1538
setTimeAfterDay(r, target, env) ==
    IF r.err # Nil THEN r ELSE setTimeSelection(r.w, target, env)

\* setDateTimeFromDayPanel, lines 1513-1539
setDateTimeFromDayPanel(w, target, env) ==
    setTimeAfterDay(
        selectDayAfterMonth(correctYearAndMonth(w, target, env), target.day, env),
        target, env)

\* setDateTimeFromMonthPanel, line 1439
setDayAfterMonthPanel(r, target, env) ==
    IF r.err # Nil THEN r ELSE setDateTimeFromDayPanel(r.w, target, env)

\* setDateTimeFromMonthPanel, lines 1425-1440
setDateTimeFromMonthPanel(w, target, env) ==
    setDayAfterMonthPanel(
        Wrapped("select month failed", selectSpecificMonth(w, target.month, env)),
        target, env)

\* setDateTimeFromYearPanel, lines 1396-1422
setDateTimeFromYearPanel(w, target, env) ==
    CASE env.fault = "yearNotFound" -> Fail(Errorf("no selectable year"), w)
      [] env.fault = "yearClick" ->
             Fail(Wrap("click year failed", Errorf("Click")), w)
      [] OTHER -> setDateTimeFromMonthPanel(ClickYear(w, target.year), target, env)

\* setFullDateTime, lines 1741-1747: the standard day selection when the
\* optimized one has failed
standardIfOptimizedFailed(r, day, env) ==
    IF r.err # Nil
    THEN Wrapped("select day failed", selectSpecificDay(r.w, day, env))
    ELSE r

\* setFullDateTime, lines 1739-1747
selectDayAfterNavigation(r, day, env) ==
    IF r.err # Nil THEN r
    ELSE standardIfOptimizedFailed(selectSpecificDayOptimized(r.w, day, env), day, env)

\* setFullDateTime, lines 1749-1753
setTimeAfterFullDay(r, target, env) ==
    IF r.err # Nil THEN r
    ELSE Wrapped("set time failed", setTimeSelection(r.w, target, env))

\* setFullDateTime, lines 1724-1757
setFullDateTime(w, target, env) ==
    setTimeAfterFullDay(
        selectDayAfterNavigation(
            Wrapped("set year and month failed",
                    navigateToYearAndMonth(w, target, env)),
            target.day, env),
        target, env)

\* detectAndSetDateTime, lines 1351-1393
detectAndSetDateTime(w, target, env) ==
    CASE env.panel = "year"  -> setDateTimeFromYearPanel(w, target, env)
      [] env.panel = "month" -> setDateTimeFromMonthPanel(w, target, env)
      [] env.panel = "day"   -> setDateTimeFromDayPanel(w, target, env)
      [] OTHER               -> setFullDateTime(w, target, env)

\* setDateTimePicker, lines 1321-1348; confirmDateTimeSelection (lines
\* 2079-2091) only logs
setDateTimePicker(w, target, env) ==
    IF env.fault = "open"
    THEN Fail(Wrap("click date-time picker failed", Errorf("Click")), w)
    ELSE Wrapped("set date and time failed", detectAndSetDateTime(w, target, env))

\* the target times and what the picker shows when it opens: the turn of
\* the year, one month before and after
Targets ==
    { [year |-> 2025, month |-> 12, day |-> 15, hour |-> 10, minute |-> 30],
      [year |-> 2026, month |-> 1, day |-> 15, hour |-> 0, minute |-> 5] }

ShownMonths == { Widget(y, mo) : y \in {2025, 2026}, mo \in {11, 12, 1} }

\* day tables for day 15: an ordinary one with a cell that is no number, one
\* with a disabled 15 of the neighbouring month first, one whose only 15 is
\* disabled, one without a 15
Grids ==
    { << Cell(0, FALSE), Cell(14, FALSE), Cell(15, FALSE), Cell(16, FALSE) >>,
      << Cell(15, TRUE), Cell(14, FALSE), Cell(15, FALSE) >>,
      << Cell(14, FALSE), Cell(15, TRUE), Cell(16, FALSE) >>,
      << Cell(14, FALSE), Cell(16, TRUE) >> }

\* the answers of the page during one call of setDateTimePicker
PickerEnvs ==
    [ monthReadable : BOOLEAN, yearReadable : BOOLEAN, arrow : ArrowOutcomes,
      grid : Grids, panel : Panels, fault : Faults ]

\* setDateTimePicker called and returned
SetDateTimePicker ==
    /\ picker.pc = "setDateTimePicker"
    /\ LET r == setDateTimePicker(picker.w, picker.target, picker.env)
       IN  picker' = [picker EXCEPT !.pc = "returned", !.w = r.w, !.err = r.err]
    /\ UNCHANGED << proc, acq, dispatcherVars, wait >>

InitPicker ==
    /\ IdleDispatcher
    /\ proc = NoProc
    /\ acq = NoAcq
    /\ wait = NoWait
    /\ \E w \in ShownMonths, target \in Targets, env \in PickerEnvs :
         picker = StartPicker("setDateTimePicker", w, target, env)

NextPicker == SetDateTimePicker

SpecPicker == InitPicker /\ [][NextPicker]_vars

\* the table has a cell that may be clicked for the day
Eligible(grid, day) ==
    \E j \in 1..Len(grid) : grid[j].text = day /\ ~grid[j].disabled

\* the error chain names the day asked for
NamesDay(err, day) ==
    \E j \in 1..Len(err) : err[j] \in {DayNotFound(day), DayNotSelectable(day)}

\* a page on which everything in the pipeline goes well
GoodEnv ==
    [ upload |-> [k \in 1..maxRetries |-> "deleteButton"], description |-> "ok",
      failing |-> "none", schedule |-> "checked", scheduleTime |-> TRUE,
      shortTitle |-> TRUE, cancel |-> "checked", button |-> "clicked",
      completion |-> "success" ]

\* the job whose scheduling step ran the call on the picker
ScheduledJob ==
    createVideo(ScheduledPublish(2), [GoodEnv EXCEPT !.scheduleTime = (picker.err = Nil)])

\* C11: when the call on the picker returns success for target T, the
\* picker shows T's year and month and has T's day, hour and minute selected
C11_PickerShowsTarget ==
    (picker.pc = "returned" /\ picker.err = Nil) =>
        /\ picker.w.year = picker.target.year
        /\ picker.w.month = picker.target.month
        /\ picker.w.day = picker.target.day
        /\ picker.w.hour = picker.target.hour
        /\ picker.w.minute = picker.target.minute

\* C20: day selection clicks only cells whose number is the target day and
\* that are not disabled; when the table has no such cell it clicks nothing
\* and the call returns an error naming the day, with which the job ends as
\* a failure with an error
C20_DaySelection ==
    picker.pc = "returned" =>
        /\ \A j \in 1..Len(picker.w.clicked) :
             /\ picker.w.clicked[j].text = picker.target.day
             /\ ~picker.w.clicked[j].disabled
        /\ (/\ "selectSpecificDay" \in picker.w.steps
            /\ ~Eligible(picker.env.grid, picker.target.day)) =>
               /\ picker.w.clicked = <<>>
               /\ picker.err # Nil
               /\ NamesDay(picker.err, picker.target.day)
               /\ ~ScheduledJob.Success
               /\ ScheduledJob.Error # Nil

\* C20 witness: day selection ran on a table whose only cell with the
\* target day is disabled, clicked nothing and returned its error
C20_Witness ==
    /\ picker.pc = "returned"
    /\ "selectSpecificDay" \in picker.w.steps
    /\ \E j \in 1..Len(picker.env.grid) :
         picker.env.grid[j] = Cell(picker.target.day, TRUE)
    /\ ~Eligible(picker.env.grid, picker.target.day)
    /\ picker.w.clicked = <<>>
    /\ NamesDay(picker.err, picker.target.day)

(***************************************************************************)
(* The dispatcher under the scheduling of the Go runtime: a goroutine that *)
(* can take a step is eventually given the processor, and every call into  *)
(* the browser returns.                                                    *)
(***************************************************************************)
SpecFair == Init /\ [][Next]_vars /\ WF_vars(Next)

\* C21: every run of the dispatcher, in either mode, eventually returns
\* with every slot of the semaphore released
C21_DispatchReturns == <>(pc = "returned" /\ semaphore = 0)

\* the log lines written for the row
LogLinesOf(row) == { line \in BagToSet(logFile) : line.RowIndex = row }

\* C22: when the dispatcher has returned, the log holds exactly one line for
\* each input job, and the line carries the job's row index and its outcome
C22_OneLogLinePerJob ==
    pc = "returned" =>
      \A k \in 1..N :
        /\ Cardinality(LogLinesOf(input[k].RowIndex)) = 1
        /\ \A line \in LogLinesOf(input[k].RowIndex) :
             /\ CopiesIn(line, logFile) = 1
             /\ line.Success = videoCreateTasks[k].Success
             /\ line.Error = videoCreateTasks[k].Error

(***************************************************************************)
(* The login of the first stage: waitUserLogin, GeneratePage with isLogin  *)
(* set, processUserLogin and what main does with its result.               *)
(***************************************************************************)
\* waitUserLogin, line 40: maxWait := 600
maxWaitLogin == 600
\* waitUserLogin, line 43: time.Sleep(2 * time.Second)
loginPollSeconds == 2
\* waitUserLogin, line 56: 600*time.Second, in seconds
loginDeadlineSeconds == 600

\* what page.URL() answers at one poll: whether the URL is on the platform
LoginMarkers == [moved : BOOLEAN]

\* GeneratePage, lines 174-223, with isLogin set; login is the error of
\* waitUserLogin
GenerateLoginPage(penv, login) ==
    IF ~penv.newPage
    THEN [page |-> "nil", err |-> Wrap("create page failed", Errorf("NewPage"))]
    ELSE IF navigate(penv, 1).err # Nil
    THEN [page |-> "nil", err |-> Wrap("page creation failed", navigate(penv, 1).err)]
    ELSE IF login # Nil
    THEN [page |-> "nil", err |-> Wrap("login failed", login)]
    ELSE [page |-> "page", err |-> Nil]

\* the cookies a browser context may hold
CookieJars == { {}, {"session"}, {"session", "token"} }

\* what the browser and the user answer during processUserLogin
LoginEnvs ==
    [ browser : BOOLEAN,
      page : { penv \in PageEnvs : penv.ready = "ready" /\ isLoggedIn(penv.visible) },
      login : {Nil, Errorf("scan timeout")},
      saveAuthState : BOOLEAN,
      cookies : CookieJars ]

\* processUserLogin, lines 15-44
processUserLogin(lenv) ==
    IF ~lenv.browser
    THEN [pageState |-> "nil",
          err |-> Wrap("start Playwright failed", Errorf("GenerateBrowser"))]
    ELSE IF GenerateLoginPage(lenv.page, lenv.login).err # Nil
    THEN [pageState |-> "nil",
          err |-> Wrap("login failed", GenerateLoginPage(lenv.page, lenv.login).err)]
    ELSE IF ~lenv.saveAuthState
    THEN [pageState |-> "nil",
          err |-> Wrap("save auth state failed", Errorf("SaveAuthState"))]
    ELSE [pageState |-> [Cookies |-> lenv.cookies], err |-> Nil]

\* log.Fatalf and os.Exit(1): the process ends with status 1
Fatal(p) == [p EXCEPT !.pc = "exited", !.exit = 1]

\* main, lines 50-53: the login stage
mainLogin(p, lenv) ==
    IF processUserLogin(lenv).err # Nil
    THEN Fatal(p)
    ELSE [p EXCEPT !.pc = "dispatch", !.authState = processUserLogin(lenv).pageState]

\* main at the call of processUserLogin
AtLogin ==
    [ pc |-> "login", exit |-> -1, authState |-> "nil", called |-> FALSE,
      context |-> {}, restores |-> 0, addCookies |-> 0 ]

\* LoginWaitStep without the check of the time elapsed
LoginWaitStep_NoDeadline ==
    /\ wait.pc = "polling"
    /\ wait.kind = "login"
    /\ \E m \in LoginMarkers, d \in CheckSeconds :
         LET w == [wait EXCEPT !.elapsed = @ + loginPollSeconds + d,
                               !.seen = m, !.at = "poll"]
         IN  wait' =
               IF wait.i >= maxWaitLogin
               THEN [wait EXCEPT !.at = "final", !.pc = "returned",
                                 !.err = Errorf("login timeout")]
               ELSE IF m.moved
               THEN [w EXCEPT !.pc = "returned", !.err = Nil]
               ELSE [w EXCEPT !.i = @ + 1, !.quiet = @ + 1]
    /\ UNCHANGED << proc, acq, dispatcherVars, picker >>

\* waitUserLogin, lines 42-60: one iteration of the loop, or the return
\* after the loop
LoginWaitStep ==
    /\ wait.pc = "polling"
    /\ wait.kind = "login"
    /\ \E m \in LoginMarkers, d \in CheckSeconds :
         LET w == [wait EXCEPT !.elapsed = @ + loginPollSeconds + d,
                               !.seen = m, !.at = "poll"]
         IN  wait' =
               IF wait.i >= maxWaitLogin
               THEN [wait EXCEPT !.at = "final", !.pc = "returned",
                                 !.err = Errorf("login timeout")]
               ELSE IF m.moved
               THEN [w EXCEPT !.pc = "returned", !.err = Nil]
               ELSE IF w.elapsed > loginDeadlineSeconds
               THEN [w EXCEPT !.pc = "returned", !.err = Errorf("scan timeout")]
               ELSE [w EXCEPT !.i = @ + 1, !.quiet = @ + 1]
    /\ UNCHANGED << proc, acq, dispatcherVars, picker >>

InitLoginWait ==
    /\ IdleDispatcher
    /\ proc = NoProc
    /\ acq = NoAcq
    /\ picker = NoPicker
    /\ wait = StartWait("login")

NextLoginWait == LoginWaitStep

SpecLoginWait == InitLoginWait /\ [][NextLoginWait]_vars

\* the login stage of main when waitUserLogin has returned what the wait
\* returned and everything else went well
LoginAfterWait ==
    [ browser |-> TRUE,
      page |-> [newPage |-> TRUE, goto |-> [k \in 1..maxNavigationAttempts |-> TRUE],
                ready |-> "ready", visible |-> {".ant-upload"}],
      login |-> wait.err,
      saveAuthState |-> TRUE,
      cookies |-> {"session"} ]

\* C23: the login wait returns success at the first poll that finds the URL
\* on the platform; it goes on polling only while 10 minutes have not
\* elapsed and returns an error once they have; with that error
\* processUserLogin returns no auth state and main ends the process before
\* the dispatcher is called
C23_LoginWait ==
    wait.kind = "login" =>
      /\ wait.quiet = wait.i
      /\ wait.pc = "polling" => wait.elapsed <= loginDeadlineSeconds
      /\ wait.pc = "returned" =>
           /\ (wait.err = Nil) <=> wait.seen.moved
           /\ wait.err # Nil =>
                /\ wait.elapsed > loginDeadlineSeconds
                /\ processUserLogin(LoginAfterWait).err # Nil
                /\ processUserLogin(LoginAfterWait).pageState = "nil"
                /\ mainLogin(AtLogin, LoginAfterWait).pc = "exited"
                /\ mainLogin(AtLogin, LoginAfterWait).exit # 0
                /\ ~mainLogin(AtLogin, LoginAfterWait).called

\* C23 witness: the login wait has returned its timeout error after more
\* than 10 minutes of polls that all found the login URL
C23_Witness ==
    /\ wait.kind = "login"
    /\ wait.pc = "returned"
    /\ wait.err # Nil
    /\ wait.elapsed > loginDeadlineSeconds
    /\ wait.quiet >= 200

(***************************************************************************)
(* The process: main, lines 10-65, from the bootstrap of the browser       *)
(* runtime to the end of the process, with the dispatcher it calls.        *)
(***************************************************************************)
\* the -file argument: not given, naming no usable file, naming a file
FileArgs == {"", "missing", "ok"}

\* ProcessVideoCreateTask, lines 51-63: createLogFile and GenerateBrowser
SessionOutcomes == {"ok", "logFileFailed", "browserFailed"}

\* the exit status of a Go program ended by a panic
panicExitStatus == 2

\* main at its first line; context holds the cookies of the working
\* browser context, restores and addCookies count the calls of
\* restoreAuthState and of context.AddCookies
AtBootstrap ==
    [ pc |-> "bootstrap", exit |-> -1, authState |-> "nil", called |-> FALSE,
      context |-> {}, restores |-> 0, addCookies |-> 0 ]

\* restoreAuthState that adds the cookies whatever their number
restoreAuthState_Always(p, authState, added) ==
    [p EXCEPT !.restores = @ + 1,
              !.addCookies = @ + 1,
              !.context = IF added THEN @ \cup authState.Cookies ELSE @]

\* restoreAuthState, lines 98-106; a failure of AddCookies is logged
restoreAuthState(p, authState, added) ==
    IF Cardinality(authState.Cookies) > 0
    THEN [p EXCEPT !.restores = @ + 1,
                   !.addCookies = @ + 1,
                   !.context = IF added THEN @ \cup authState.Cookies ELSE @]
    ELSE [p EXCEPT !.restores = @ + 1]

\* main, lines 26-28: isPlaywrightInstalled
MainBootstrap ==
    /\ proc.pc = "bootstrap"
    /\ \E installed \in BOOLEAN :
         proc' = IF installed THEN [proc EXCEPT !.pc = "args"] ELSE Fatal(proc)
    /\ UNCHANGED << acq, dispatcherVars, picker, wait >>

\* main, lines 31-39: the file argument is given and names a file
MainCheckArgs ==
    /\ proc.pc = "args"
    /\ \E file \in FileArgs :
         proc' = IF file = "ok" THEN [proc EXCEPT !.pc = "validate"] ELSE Fatal(proc)
    /\ UNCHANGED << acq, dispatcherVars, picker, wait >>

\* main, lines 43-46: ValidateExcelFile returns the tasks or an error
MainValidate ==
    /\ proc.pc = "validate"
    /\ \E valid \in BOOLEAN :
         proc' = IF valid THEN [proc EXCEPT !.pc = "login"] ELSE Fatal(proc)
    /\ UNCHANGED << acq, dispatcherVars, picker, wait >>

\* main, lines 50-53: processUserLogin
MainLogin ==
    /\ proc.pc = "login"
    /\ \E lenv \in LoginEnvs : proc' = mainLogin(proc, lenv)
    /\ UNCHANGED << acq, dispatcherVars, picker, wait >>

\* main, line 57: ProcessVideoCreateTask is called
MainDispatch ==
    /\ proc.pc = "dispatch"
    /\ pc = "off"
    /\ proc' = [proc EXCEPT !.pc = "dispatching", !.called = TRUE]
    /\ pc' = "entry"
    /\ UNCHANGED << acq, picker, wait, concurrent, input, videoCreateTasks, i,
                    semaphore, wg, worker, page, pages, logFile, capacity, run >>

\* ProcessVideoCreateTask, lines 51-69: the log file and the working
\* browser are created; without either, nil is returned
CreateSession ==
    /\ pc = "entry"
    /\ \E session \in SessionOutcomes, added \in BOOLEAN :
         IF session = "ok"
         THEN /\ pc' = "start"
              /\ proc' = restoreAuthState(proc, proc.authState, added)
              /\ UNCHANGED videoCreateTasks
         ELSE /\ pc' = "returned"
              /\ videoCreateTasks' = <<>>
              /\ UNCHANGED proc
    /\ UNCHANGED << acq, picker, wait, concurrent, input, i, semaphore, wg,
                    worker, page, pages, logFile, capacity, run >>

\* main, lines 57-65: the dispatcher has returned, the results are printed
\* and main returns
MainReturn ==
    /\ proc.pc = "dispatching"
    /\ pc = "returned"
    /\ proc' = [proc EXCEPT !.pc = "exited", !.exit = 0]
    /\ UNCHANGED << acq, dispatcherVars, picker, wait >>

\* a panic in any goroutine ends the process
MainPanic ==
    /\ proc.pc = "dispatching"
    /\ pc = "panic"
    /\ proc' = [proc EXCEPT !.pc = "exited", !.exit = panicExitStatus]
    /\ UNCHANGED << acq, dispatcherVars, picker, wait >>

\* the batches main hands to the dispatcher
MainBatches == { TaskBatch(n, seed) : n \in 1..2, seed \in BatchSeeds }

InitMain ==
    /\ concurrent \in BOOLEAN
    /\ input \in MainBatches
    /\ videoCreateTasks = input
    /\ pc = "off"
    /\ i = 1
    /\ semaphore = 0
    /\ wg = 0
    /\ worker = [k \in 1..Len(input) |-> IdleWorker]
    /\ page = NoPage
    /\ pages = [k \in 0..Len(input) |-> "none"]
    /\ logFile = EmptyBag
    /\ capacity = 0
    /\ run = [k \in 1..Len(input) |-> NoRun]
    /\ picker = NoPicker
    /\ wait = NoWait
    /\ proc = AtBootstrap
    /\ acq = NoAcq

NextMain ==
    \/ MainBootstrap
    \/ MainCheckArgs
    \/ MainValidate
    \/ MainLogin
    \/ MainDispatch
    \/ CreateSession
    \/ ProcessVideoCreateTask
    \/ SeqGeneratePage(DispatchPageEnvs)
    \/ SeqCreateVideo(DispatchEnvs)
    \/ SeqReturn
    \/ MakeSemaphore
    \/ Launch
    \/ \E k \in 1..Len(input) : WorkerGeneratePage(k, DispatchPageEnvs)
    \/ \E k \in 1..Len(input) : WorkerCreateVideo(k, DispatchEnvs)
    \/ \E k \in 1..Len(input) : WorkerExit(k)
    \/ Wait
    \/ MainReturn
    \/ MainPanic

SpecMain == InitMain /\ [][NextMain]_vars

\* nothing of the dispatcher has run
NothingDispatched ==
    /\ pc = "off"
    /\ videoCreateTasks = input
    /\ logFile = EmptyBag
    /\ \A k \in 1..N : worker[k].pc = "idle" /\ run[k] = NoRun

\* C24: a process that ends before the dispatcher is called ends with a
\* status other than 0 and has dispatched nothing; a process that ends after
\* the dispatcher was called ends with status 0, whatever the jobs' outcomes
C24_ExitStatus ==
    proc.pc = "exited" =>
      IF proc.called
      THEN proc.exit = 0
      ELSE proc.exit # 0 /\ NothingDispatched

\* C26: the list the dispatch entry point returns has one entry for each
\* input job, in input order
C26_OneEntryPerJob ==
    pc = "returned" =>
      /\ Len(videoCreateTasks) = Len(input)
      /\ \A k \in 1..Len(videoCreateTasks) :
           videoCreateTasks[k].RowIndex = input[k].RowIndex

\* C27: in sequential mode the dispatcher never crashes, and when it has
\* returned without the shared page the acquisition error is recorded, as
\* a failure, against a job of the input
C27_SequentialPageFailure ==
    ~concurrent =>
      /\ pc # "panic"
      /\ (pc = "returned" /\ page.page = "nil") =>
           \E k \in 1..N :
             /\ videoCreateTasks[k].RowIndex = input[k].RowIndex
             /\ ~videoCreateTasks[k].Success
             /\ videoCreateTasks[k].Error # Nil

\* the position of the first event of phase ph in trace t, 0 when none
RECURSIVE PhaseIndexFrom(_, _, _)
PhaseIndexFrom(t, ph, j) ==
    IF j > Len(t) THEN 0
    ELSE IF t[j].phase = ph THEN j
    ELSE PhaseIndexFrom(t, ph, j + 1)

PhaseIndex(t, ph) == PhaseIndexFrom(t, ph, 1)

\* C28: for a job with scheduling and save mode draft, the save-draft button
\* is waited for and clicked only after the cancellation of the schedule
\* returned without error (the radio clicked and read back as checked); when
\* the cancellation returns an error the job fails with it and the button
\* is never clicked
C28_DraftAfterCancel ==
    \A k \in 1..N :
      (Stored(k) /\ input[k].Schedule /\ input[k].Action = "save_draft") =>
        LET t == run[k].trace
            task == videoCreateTasks[k]
        IN  /\ HasPhase(t, "Submitted") =>
                 /\ HasPhase(t, "CancelSchedule")
                 /\ PhaseIndex(t, "CancelSchedule") < PhaseIndex(t, "Submitted")
                 /\ t[PhaseIndex(t, "CancelSchedule")].err = Nil
            /\ HasFailedPhase(t, "CancelSchedule") =>
                 /\ ~task.Success
                 /\ IsSuffix(t[PhaseIndex(t, "CancelSchedule")].err, task.Error)
                 /\ ~HasPhase(t, "Submitted")

\* C28 witness: a stored job with scheduling and save mode draft whose
\* cancellation of the schedule returned an error
C28_Witness ==
    \E k \in 1..N :
      /\ Stored(k)
      /\ input[k].Schedule
      /\ input[k].Action = "save_draft"
      /\ HasFailedPhase(run[k].trace, "CancelSchedule")

(***************************************************************************)
(* One page acquisition: GeneratePage(context, false) called and returned, *)
(* for every answer of the browser.                                        *)
(***************************************************************************)
\* an acquisition about to start
StartAcquisition(penv) ==
    [ pc |-> "GeneratePage", penv |-> penv, created |-> FALSE, page |-> "nil",
      channelName |-> "", err |-> Nil, steps |-> <<>>, phases |-> <<>> ]

\* GeneratePage called and returned
CallGeneratePage ==
    /\ acq.pc = "GeneratePage"
    /\ LET g == GeneratePage(acq.penv)
       IN  acq' = [acq EXCEPT !.pc = "returned", !.created = g.created,
                              !.page = g.page, !.channelName = g.channelName,
                              !.err = g.err, !.steps = g.steps,
                              !.phases = g.phases]
    /\ UNCHANGED << proc, dispatcherVars, picker, wait >>

InitAcquire ==
    /\ IdleDispatcher
    /\ proc = NoProc
    /\ picker = NoPicker
    /\ wait = NoWait
    /\ \E penv \in PageEnvs : acq = StartAcquisition(penv)

NextAcquire == CallGeneratePage

SpecAcquire == InitAcquire /\ [][NextAcquire]_vars

\* the number of page.Goto calls among the steps
Attempts(steps) ==
    LET isGoto(s) == s = "goto" IN Len(SelectSeq(steps, isGoto))

\* the attempts that succeed under penv
Succeeding(penv) == { k \in 1..maxNavigationAttempts : penv.goto[k] }

RadioEnvs ==
    [ found : BOOLEAN, visible : BOOLEAN,
      click : {"checks", "noEffect", "fails"},
      read : {"ok", "fails"},
      fallback : {"sets", "noEffect", "fails"} ]

\* setScheduledPublish, lines 1215-1236: the radio after the read-back.  An
\* error of IsChecked is logged; an unchecked radio is set through Evaluate
\* and not read again; an error of Evaluate is logged
radioAfterVerify(renv) ==
    IF renv.read = "fails" THEN renv.click = "checks"
    ELSE IF renv.click = "checks" THEN TRUE
    ELSE renv.fallback = "sets"

\* setScheduledPublish, lines 1128-1236: the radio is found, waited for,
\* clicked and read back
selectScheduledRadio(renv) ==
    IF ~renv.found
    THEN [err |-> Errorf("schedule button not found"), radio |-> FALSE]
    ELSE IF ~renv.visible
    THEN [err |-> Wrap("schedule button not visible", Errorf("WaitFor")),
          radio |-> FALSE]
    ELSE IF renv.click = "fails"
    THEN [err |-> Wrap("click schedule button failed", Errorf("Click")),
          radio |-> FALSE]
    ELSE [err |-> Nil, radio |-> radioAfterVerify(renv)]

\* the schedule time of a job: whether the cell holds one, whether five
\* numbers that make a time can be read from it, and the time it gives
ScheduleTimes ==
    { [given |-> g[1], parses |-> g[2], target |-> t] :
        g \in { <<FALSE, FALSE>>, <<TRUE, FALSE>>, <<TRUE, TRUE>> }, t \in Targets }

\* setScheduleTime, lines 1290-1318
setScheduleTime(w, time, penv) ==
    IF ~time.parses
    THEN Fail(Errorf("cannot extract time"), Entered(w, "setScheduleTime"))
    ELSE setDateTimePicker(Entered(w, "setScheduleTime"), time.target, penv)

\* a result on the picker together with the state of the radio
WithRadio(r, radio) == [err |-> r.err, w |-> r.w, radio |-> radio]

\* setScheduledPublish, lines 1249-1258, after the radio
scheduleTimeAfterRadio(r, w, time, penv) ==
    IF r.err # Nil THEN WithRadio(Fail(r.err, w), r.radio)
    ELSE IF ~time.given THEN WithRadio(Ok(w), r.radio)
    ELSE WithRadio(Wrapped("set schedule time failed",
                           setScheduleTime(w, time, penv)), r.radio)

\* setScheduledPublish, lines 1128-1259, step by step
setScheduledPublishSteps(w, time, env) ==
    scheduleTimeAfterRadio(selectScheduledRadio(env.radio), w, time, env.picker)

\* the answers of the picker drawn for a scheduling: it works or its input
\* cannot be clicked
SchedulePickerEnvs ==
    { penv \in PickerEnvs :
        /\ penv.monthReadable /\ penv.yearReadable /\ penv.arrow = "ok"
        /\ Eligible(penv.grid, 15) /\ penv.grid[1].disabled
        /\ penv.panel = "day"
        /\ penv.fault \in {"none", "open"} }

ScheduleEnvs == [radio : RadioEnvs, picker : SchedulePickerEnvs]

\* setScheduledPublish about to start on picker w
StartSchedule(w, time, env) ==
    [ pc |-> "setScheduledPublish", shown |-> w, w |-> w, time |-> time,
      target |-> time.target, env |-> env, err |-> Nil, radio |-> FALSE ]

\* setScheduledPublish called and returned
SetScheduledPublish ==
    /\ picker.pc = "setScheduledPublish"
    /\ LET r == setScheduledPublishSteps(picker.w, picker.time, picker.env)
       IN  picker' = [picker EXCEPT !.pc = "returned", !.w = r.w, !.err = r.err,
                                    !.radio = r.radio]
    /\ UNCHANGED << proc, acq, dispatcherVars, wait >>

InitSchedule ==
    /\ IdleDispatcher
    /\ proc = NoProc
    /\ acq = NoAcq
    /\ wait = NoWait
    /\ \E w \in ShownMonths, time \in ScheduleTimes, env \in ScheduleEnvs :
         picker = StartSchedule(w, time, env)

NextSchedule == SetScheduledPublish

SpecSchedule == InitSchedule /\ [][NextSchedule]_vars

\* the click on the radio was made and returned no error
RadioClicked ==
    /\ picker.env.radio.found
    /\ picker.env.radio.visible
    /\ picker.env.radio.click # "fails"

\* C29: setScheduledPublish goes on to the date and time only when the
\* radio was read back and is checked; when the radio is unchecked after
\* the click and the direct setting, or cannot be read, it returns an error
C29_RadioVerified ==
    picker.pc = "returned" =>
      /\ "setScheduleTime" \in picker.w.steps =>
           /\ picker.radio
           /\ picker.env.radio.read = "ok"
      /\ (RadioClicked /\ (~picker.radio \/ picker.env.radio.read = "fails")) =>
           picker.err # Nil


\* the answers of the page during one call of navigateToYearAndMonth
YearMonthEnvs ==
    [ monthReadable : BOOLEAN, yearReadable : BOOLEAN, arrow : ArrowOutcomes,
      fault : {"none", "yearNotFound", "yearClick"} ]

\* navigateToYearAndMonth called and returned
NavigateToYearAndMonth ==
    /\ picker.pc = "navigateToYearAndMonth"
    /\ LET r == navigateToYearAndMonth(picker.w, picker.target, picker.env)
       IN  picker' = [picker EXCEPT !.pc = "returned", !.w = r.w, !.err = r.err]
    /\ UNCHANGED << proc, acq, dispatcherVars, wait >>

InitYearMonth ==
    /\ IdleDispatcher
    /\ proc = NoProc
    /\ acq = NoAcq
    /\ wait = NoWait
    /\ \E w \in ShownMonths, target \in Targets, env \in YearMonthEnvs :
         picker = StartPicker("navigateToYearAndMonth", w, target, env)

NextYearMonth == NavigateToYearAndMonth

SpecYearMonth == InitYearMonth /\ [][NextYearMonth]_vars

\* C30: when year-and-month navigation returns success, the picker shows
\* the target year, also when the clicks on the right arrow went from
\* December to January
C30_YearAfterNavigation ==
    (picker.pc = "returned" /\ picker.err = Nil) =>
        picker.w.year = picker.target.year

\* the time picker as it opens: what is highlighted in its two columns
ShownTimes ==
    { [Widget(2025, 12) EXCEPT !.hour = h, !.minute = mi] :
        h \in {0, 10, 23}, mi \in {5, 30, 59} }

\* the answers of the page during one call of setTimeSelection
TimeEnvs ==
    [ fault : { "none", "timePicker", "hourNotFound", "hourClick", "hourStuck",
                "hourUnread", "minuteNotFound", "minuteClick", "minuteStuck",
                "minuteUnread" } ]

\* setTimeSelection called and returned
SetTimeSelection ==
    /\ picker.pc = "setTimeSelection"
    /\ LET r == setTimeSelection(picker.w, picker.target, picker.env)
       IN  picker' = [picker EXCEPT !.pc = "returned", !.w = r.w, !.err = r.err]
    /\ UNCHANGED << proc, acq, dispatcherVars, wait >>

InitTime ==
    /\ IdleDispatcher
    /\ proc = NoProc
    /\ acq = NoAcq
    /\ wait = NoWait
    /\ \E w \in ShownTimes, target \in Targets, env \in TimeEnvs :
         picker = StartPicker("setTimeSelection", w, target, env)

NextTime == SetTimeSelection

SpecTime == InitTime /\ [][NextTime]_vars

\* the hour step was entered with its option on the page, and likewise the
\* minute step
HourStepRan == picker.env.fault \notin {"timePicker", "hourNotFound"}
MinuteStepRan ==
    /\ HourStepRan
    /\ picker.env.fault # "minuteNotFound"
    /\ "set hour failed" \notin { picker.err[j] : j \in 1..Len(picker.err) }

ErrorNames(text) == \E j \in 1..Len(picker.err) : picker.err[j] = text

\* C31: in the hour step and in the minute step, an option that is already
\* highlighted is not clicked; otherwise there is exactly one click, on the
\* option with the target's two digits, the highlighted value is read back,
\* and a value other than the target gives an error with both values
C31_HourAndMinuteStep ==
    picker.pc = "returned" =>
      /\ HourStepRan =>
           /\ picker.w.hourClicks =
                IF picker.shown.hour = picker.target.hour THEN <<>>
                ELSE << TwoDigits(picker.target.hour) >>
           /\ ( /\ picker.w.hourClicks # <<>>
                /\ picker.env.fault \notin {"hourClick", "hourUnread"}
                /\ picker.w.hour # picker.target.hour ) =>
                ErrorNames(HourMismatch(TwoDigits(picker.target.hour),
                                        TwoDigits(picker.w.hour)))
      /\ ~HourStepRan => picker.w.hourClicks = <<>>
      /\ MinuteStepRan =>
           /\ picker.w.minuteClicks =
                IF picker.shown.minute = picker.target.minute THEN <<>>
                ELSE << TwoDigits(picker.target.minute) >>
           /\ ( /\ picker.w.minuteClicks # <<>>
                /\ picker.env.fault \notin {"minuteClick", "minuteUnread"}
                /\ picker.w.minute # picker.target.minute ) =>
                ErrorNames(MinuteMismatch(TwoDigits(picker.target.minute),
                                          TwoDigits(picker.w.minute)))
      /\ ~MinuteStepRan => picker.w.minuteClicks = <<>>
      /\ picker.err = Nil =>
           /\ picker.w.hour = picker.target.hour
           /\ picker.w.minute = picker.target.minute

\* the hour option was clicked once, the highlighted hour stayed another one
\* and the call returned the error with both
C31_Witness ==
    /\ picker.pc = "returned"
    /\ picker.w.hourClicks = << "10" >>
    /\ picker.w.hour = 23
    /\ ErrorNames(HourMismatch("10", "23"))

\* isLoggedIn called on a page and returned
IsLoggedIn ==
    /\ acq.pc = "isLoggedIn"
    /\ acq' = [acq EXCEPT !.pc = "returned", !.loggedIn = isLoggedIn(acq.visible)]
    /\ UNCHANGED << proc, dispatcherVars, picker, wait >>

InitLoginCheck ==
    /\ IdleDispatcher
    /\ proc = NoProc
    /\ picker = NoPicker
    /\ wait = NoWait
    /\ \E visible \in SUBSET (Range(loggedInSelectors) \cup Range(loginSelectors)) :
         acq = [pc |-> "isLoggedIn", visible |-> visible, loggedIn |-> FALSE]

NextLoginCheck == IsLoggedIn

SpecLoginCheck == InitLoginCheck /\ [][NextLoginCheck]_vars

\* C33: the login check answers not-logged-in exactly when a login marker is
\* visible and no marker of the authenticated surface is; with a surface
\* marker visible, or with no marker visible at all, it answers logged-in
C33_LoginCheck ==
    acq.pc = "returned" =>
      /\ acq.visible \cap Range(loggedInSelectors) # {} => acq.loggedIn
      /\ acq.visible = {} => acq.loggedIn
      /\ ~acq.loggedIn <=>
           /\ acq.visible \cap Range(loginSelectors) # {}
           /\ acq.visible \cap Range(loggedInSelectors) = {}

\* the login code and the publish button are both visible and the check has
\* answered logged-in
C33_Witness ==
    /\ acq.pc = "returned"
    /\ {".qrcode", "text=publish"} \subseteq acq.visible
    /\ acq.loggedIn

\* GeneratePage, line 216: the error of a page whose login is no longer valid
LoginInvalid == Wrap("login invalid", Errorf("<nil>"))

\* C32: when the page is ready and isLoggedIn answers no, the acquisition
\* returns the login-invalid error, a job is recorded as failed with that
\* error, and no pipeline runs on the page
C32_LoginInvalidRecorded ==
    /\ concurrent =>
         \A k \in 1..N :
           (Stored(k) /\ worker[k].pageError = LoginInvalid) =>
               /\ ~videoCreateTasks[k].Success
               /\ videoCreateTasks[k].Error = ErrorText(LoginInvalid)
               /\ ~HasPhase(run[k].trace, "MediaUploaded")
    /\ (~concurrent /\ page.pageError = LoginInvalid) =>
         /\ pc = "returned"
         /\ \E k \in 1..N :
              /\ ~videoCreateTasks[k].Success
              /\ videoCreateTasks[k].Error = ErrorText(LoginInvalid)
         /\ \A k \in 1..N : run[k] = NoRun

\* waitForPageReady, line 229: maxWait := 30
maxWaitReady == 30
\* waitForPageReady, line 248: time.Sleep(2 * time.Second)
readyPollSeconds == 2

\* what the page shows at one attempt of the readiness check: its URL is the
\* upload page's, reading the text of the body returns an error, the body
\* holds one of the upload texts, an upload element is on the page
ReadyMarkers ==
    [ url : BOOLEAN, bodyTextError : BOOLEAN, bodyText : BOOLEAN,
      uploadElement : BOOLEAN ]

\* isCorrectPage, lines 618-643
isCorrectPage(m) == m.url \/ (~m.bodyTextError /\ m.bodyText)

\* isUploadPageReady, lines 646-667
isUploadPageReady(m) == m.uploadElement

\* ReadyWaitPoll looking for the upload element before the surface
ReadyWaitPoll_ReadyFirst ==
    /\ wait.pc = "polling"
    /\ wait.kind = "ready"
    /\ wait.i < maxWaitReady
    /\ \E m \in ReadyMarkers :
         LET w == [wait EXCEPT !.seen = m, !.at = "poll"]
         IN  wait' = IF isUploadPageReady(m)
                     THEN [w EXCEPT !.pc = "returned", !.err = Nil]
                     ELSE IF ~isCorrectPage(m)
                     THEN [w EXCEPT !.pc = "returned",
                                    !.err = Errorf("not on the upload page")]
                     ELSE [w EXCEPT !.i = @ + 1, !.quiet = @ + 1,
                                    !.elapsed = @ + readyPollSeconds]
    /\ UNCHANGED << proc, acq, dispatcherVars, picker >>

\* waitForPageReady, lines 230-249: one iteration of the loop
ReadyWaitPoll ==
    /\ wait.pc = "polling"
    /\ wait.kind = "ready"
    /\ wait.i < maxWaitReady
    /\ \E m \in ReadyMarkers :
         LET w == [wait EXCEPT !.seen = m, !.at = "poll"]
         IN  wait' = IF ~isCorrectPage(m)
                     THEN [w EXCEPT !.pc = "returned",
                                    !.err = Errorf("not on the upload page")]
                     ELSE IF isUploadPageReady(m)
                     THEN [w EXCEPT !.pc = "returned", !.err = Nil]
                     ELSE [w EXCEPT !.i = @ + 1, !.quiet = @ + 1,
                                    !.elapsed = @ + readyPollSeconds]
    /\ UNCHANGED << proc, acq, dispatcherVars, picker >>

\* waitForPageReady, line 251: the loop is over
ReadyWaitFinal ==
    /\ wait.pc = "polling"
    /\ wait.kind = "ready"
    /\ wait.i >= maxWaitReady
    /\ wait' = [wait EXCEPT !.at = "final", !.pc = "returned",
                            !.err = Errorf("page load timeout")]
    /\ UNCHANGED << proc, acq, dispatcherVars, picker >>

InitReadyWait ==
    /\ IdleDispatcher
    /\ proc = NoProc
    /\ acq = NoAcq
    /\ picker = NoPicker
    /\ wait = StartWait("ready")

NextReadyWait ==
    \/ ReadyWaitPoll
    \/ ReadyWaitFinal

SpecReadyWait == InitReadyWait /\ [][NextReadyWait]_vars

\* C34: the readiness check makes at most 30 attempts, 2 seconds apart; an
\* attempt on a page that is not the upload page returns an error at once,
\* an attempt that finds an upload element returns success, and after 30
\* attempts without one the check returns the timeout
C34_ReadinessCheck ==
    wait.kind = "ready" =>
      /\ wait.i <= maxWaitReady
      /\ wait.quiet = wait.i
      /\ wait.elapsed = wait.i * readyPollSeconds
      /\ (wait.at = "poll" /\ ~isCorrectPage(wait.seen)) =>
           /\ wait.pc = "returned"
           /\ wait.err = Errorf("not on the upload page")
      /\ (wait.at = "poll" /\ isCorrectPage(wait.seen)
            /\ isUploadPageReady(wait.seen)) =>
           /\ wait.pc = "returned"
           /\ wait.err = Nil
      /\ (wait.at = "poll" /\ isCorrectPage(wait.seen)
            /\ ~isUploadPageReady(wait.seen)) =>
           /\ wait.pc = "polling"
           /\ wait.i >= 1
      /\ (wait.pc = "returned" /\ wait.err = Errorf("page load timeout")) <=>
           (wait.pc = "returned" /\ wait.i = maxWaitReady)
      /\ wait.at = "final" => wait.i = maxWaitReady

\* thirty attempts found the upload page without an upload element and the
\* check has returned the timeout
C34_Witness ==
    /\ wait.kind = "ready"
    /\ wait.pc = "returned"
    /\ wait.quiet = maxWaitReady
    /\ wait.elapsed = 60
    /\ wait.err = Errorf("page load timeout")

\* the steps a page acquisition takes when attempts 1..k fail and either
\* attempt k+1 succeeds or k is the last attempt: a wait and a reload
\* between two attempts and none after the last
RECURSIVE StepsBetweenAttempts(_, _)
StepsBetweenAttempts(k, n) ==
    IF k >= n THEN <<"goto">>
    ELSE <<"goto", Sleep(k * 10), "reload">> \o StepsBetweenAttempts(k + 1, n)

\* C35: during a page acquisition the wait of k times 10 seconds and the
\* reload happen after the k-th failed attempt only when another attempt
\* follows; after the third failed attempt the error is returned without a
\* wait or a reload
C35_BackoffBetweenAttempts ==
    (acq.pc = "returned" /\ acq.penv.newPage) =>
        acq.steps = StepsBetweenAttempts(1, Attempts(acq.steps))

\* the number of calls of op among the calls
CallsOf(calls, op) ==
    LET isOp(c) == c.op = op IN Len(SelectSeq(calls, isOp))

\* the rank among the calls of the call of op for the job, 0 without one
RECURSIVE CallRank(_, _, _, _)
CallRank(calls, op, job, k) ==
    IF k > Len(calls) THEN 0
    ELSE IF calls[k] = Call(op, job) THEN k
    ELSE CallRank(calls, op, job, k + 1)

\* the log file holds the line of the task
Logged(task, channelName) ==
    CopiesIn(LogLine(task, channelName), logFile) >= 1

\* C36: in sequential mode one page is created for the whole run; the jobs
\* are processed in input order, a job starting only after the outcome of
\* the one before it is recorded and logged and after the page was reloaded
\* and the settle delay observed
C36_SequentialSharedPage ==
    ~concurrent =>
      /\ CallsOf(page.calls, "NewPage") <= 1
      /\ (pc \in {"seqloop", "returned"} /\ page.page # "nil") =>
           /\ CallsOf(page.calls, "NewPage") = 1
           /\ CallsOf(page.calls, "createVideo") = i - 1
           /\ \A k \in 1..N :
                IF k < i
                THEN /\ CallRank(page.calls, "createVideo", k, 1) = 4 * k - 2
                     /\ CallRank(page.calls, "writeLogFile", k, 1) = 4 * k - 1
                     /\ CallRank(page.calls, "Reload", k, 1) = 4 * k
                     /\ CallRank(page.calls, Sleep(settleSeconds), k, 1) = 4 * k + 1
                     /\ videoCreateTasks[k] = TaskOutcome(input[k], run[k].err)
                     /\ Logged(videoCreateTasks[k], page.channelName)
                ELSE /\ CallRank(page.calls, "createVideo", k, 1) = 0
                     /\ run[k] = NoRun
                     /\ videoCreateTasks[k] = input[k]

\* a sequential run of two jobs or more has returned after its last job
C36_Witness ==
    /\ ~concurrent
    /\ pc = "returned"
    /\ N >= 2
    /\ CallsOf(page.calls, "createVideo") = N
    /\ CallsOf(page.calls, "Reload") = N

\* a pipeline or a page acquisition of the dispatch has started
DispatchStarted ==
    \/ pc \in {"sequential", "seqloop", "concurrent", "loop", "panic"}
    \/ \E k \in 1..N : run[k] # NoRun \/ worker[k].pc # "idle"
    \/ page # NoPage

\* C37: the state captured at login is restored into the working context
\* once, before anything of the dispatch starts, and not again; with no
\* cookie in it the restoring adds nothing to the context, and it never
\* makes the dispatcher return an error
C37_RestoreOnce ==
    /\ proc.restores <= 1
    /\ DispatchStarted => proc.restores = 1
    /\ proc.restores = 1 =>
         /\ Len(videoCreateTasks) = N
         /\ proc.authState.Cookies = {} =>
              /\ proc.context = {}
              /\ proc.addCookies = 0
         /\ proc.context \subseteq proc.authState.Cookies

\* a state without cookies was restored and a pipeline has run
C37_Witness ==
    /\ proc.restores = 1
    /\ proc.authState.Cookies = {}
    /\ \E k \in 1..N : run[k] # NoRun

(***************************************************************************)
(* The validator: parseTaskFromRow, part_000 lines 109-204, on one data    *)
(* row. A cell is the sequence of the pieces of its text, " " being white  *)
(* space; the empty string is the empty sequence.                          *)
(***************************************************************************)
RECURSIVE TrimLeft(_)
TrimLeft(s) == IF s # <<>> /\ Head(s) = " " THEN TrimLeft(Tail(s)) ELSE s

RECURSIVE TrimRight(_)
TrimRight(s) ==
    IF s # <<>> /\ s[Len(s)] = " " THEN TrimRight(SubSeq(s, 1, Len(s) - 1)) ELSE s

\* strings.TrimSpace
TrimSpace(s) == TrimRight(TrimLeft(s))

\* parseTaskFromRow, line 157: now.Add(30*24*time.Hour), in days
scheduleWindowDays == 30

\* time.Parse("2006/01/2 15:04", text), line 151, for a now of 2025/11/1
\* 10:30: the day of the time counted from now, or an error
timeParse(text) ==
    CASE text = <<"2025/10/31 10:30">> -> [err |-> Nil, day |-> -1]
      [] text = <<"2025/11/2 10:30">>  -> [err |-> Nil, day |-> 1]
      [] text = <<"2025/12/15 10:30">> -> [err |-> Nil, day |-> 44]
      [] OTHER -> [err |-> Errorf("parsing time"), day |-> 0]

\* checkFileExists(videoPath, ""), lines 207-235: the files that exist
checkVideoExists(videoPath) == videoPath = <<"video.mp4">>

\* row[k] of the source, whose indices start at 0
At(row, k) == row[k + 1]

\* the cell of column k trimmed, or the zero value when the row is shorter
Column(row, k) == IF Len(row) > k THEN TrimSpace(At(row, k)) ELSE <<>>

\* parseTaskFromRow, lines 110-141: the fields read before the checks
taskOfRow(row) ==
    [ Description |-> Column(row, 0), Location |-> Column(row, 1),
      Collection |-> Column(row, 2), Link |-> Column(row, 3),
      Activity |-> Column(row, 4),
      Schedule |-> Column(row, 5) = <<"scheduled">>,
      ScheduleTime |-> <<>>, ShortTitle |-> <<>>, Action |-> "", VideoPath |-> <<>> ]

Parsed(task, err) == [task |-> task, err |-> err, panic |-> FALSE]

\* an index out of range: the goroutine panics
Panicked(task) == [task |-> task, err |-> Nil, panic |-> TRUE]

\* parseTaskFromRow, lines 189-203: the video path
parseVideoPath(row, task) ==
    IF Len(row) > 9
    THEN IF TrimSpace(At(row, 9)) = <<>>
         THEN Parsed(task, Errorf("video path is empty"))
         ELSE IF ~checkVideoExists(TrimSpace(At(row, 9)))
         THEN Parsed(task, Errorf("video file does not exist"))
         ELSE Parsed([task EXCEPT !.VideoPath = TrimSpace(At(row, 9))], Nil)
    ELSE Parsed(task, Errorf("video path missing"))

\* parseTaskFromRow, lines 169-186: the save mode
parseAction(row, task) ==
    IF Len(row) > 8
    THEN IF At(row, 5) = <<"scheduled">> /\ At(row, 8) = <<"save draft">>
         THEN Parsed(task, Errorf("a scheduled job must be published"))
         ELSE CASE TrimSpace(At(row, 8)) = <<"save draft">> ->
                     parseVideoPath(row, [task EXCEPT !.Action = "save_draft"])
                [] TrimSpace(At(row, 8)) = <<"preview">> ->
                     parseVideoPath(row, [task EXCEPT !.Action = "preview"])
                [] TrimSpace(At(row, 8)) = <<"publish">> ->
                     parseVideoPath(row, [task EXCEPT !.Action = "publish"])
                [] OTHER -> Parsed(task, Errorf("save mode not supported"))
    ELSE Parsed(task, Errorf("save mode missing"))

\* parseTaskFromRow, lines 164-166: the short title
parseShortTitle(row, task) ==
    parseAction(row, [task EXCEPT !.ShortTitle = Column(row, 7)])

\* parseTaskFromRow, lines 149-160: the schedule time of a row of more than
\* 6 cells
parseScheduleTime(row, task) ==
    IF At(row, 5) = <<"scheduled">> /\ TrimSpace(At(row, 6)) # <<>>
    THEN IF timeParse(TrimSpace(At(row, 6))).err # Nil
         THEN Parsed(task, Errorf("time format error"))
         ELSE IF \/ timeParse(TrimSpace(At(row, 6))).day < 0
                 \/ timeParse(TrimSpace(At(row, 6))).day > scheduleWindowDays
         THEN Parsed(task, Errorf("schedule time must be after now and within a month"))
         ELSE parseShortTitle(row, task)
    ELSE parseShortTitle(row, task)

\* parseTaskFromRow, lines 109-204; row[5] at line 144 and row[6] after it
\* are read whatever the length of the row
parseTaskFromRow(row) ==
    IF Len(row) <= 5 THEN Panicked(taskOfRow(row))
    ELSE IF At(row, 5) = <<"scheduled">> /\ Len(row) <= 6
    THEN Panicked(taskOfRow(row))
    ELSE IF At(row, 5) = <<"scheduled">> /\ At(row, 6) = <<>>
    THEN Parsed(taskOfRow(row), Errorf("schedule time is empty"))
    ELSE IF Len(row) > 6
    THEN parseScheduleTime(row, [taskOfRow(row) EXCEPT
                                    !.ScheduleTime = TrimSpace(At(row, 6))])
    ELSE parseShortTitle(row, taskOfRow(row))

\* the cells drawn for the columns of a row; the columns not listed hold
\* a text
ColumnCells(k) ==
    CASE k = 5 -> { <<>>, <<"scheduled">>, <<" ", "scheduled">> }
      [] k = 6 -> { <<>>, <<" ">>, <<"2025/10/31 10:30">>, <<"2025/11/2 10:30">>,
                    <<"2025/12/15 10:30">>, <<"11-02 10:30">> }
      [] k = 8 -> { <<"save draft">>, <<"save draft", " ">>, <<"preview">>,
                    <<"publish">>, <<"other">> }
      [] k = 9 -> { <<>>, <<"video.mp4">>, <<"missing.mp4">> }
      [] OTHER -> { <<"text">> }

\* the data rows: rows of 10 cells and their beginnings, a sheet giving a
\* row without its empty cells at the end
Rows ==
    { SubSeq(<< <<"text">>, <<"text">>, <<"text">>, <<"text">>, <<"text">>,
                c5, c6, <<"text">>, c8, c9 >>, 1, n) :
        c5 \in ColumnCells(5), c6 \in ColumnCells(6), c8 \in ColumnCells(8),
        c9 \in ColumnCells(9), n \in 0..10 }

\* parseTaskFromRow called on a row: it returns or the process panics
ParseTaskFromRow ==
    /\ acq.pc = "parseTaskFromRow"
    /\ LET r == parseTaskFromRow(acq.row)
       IN  acq' = [acq EXCEPT !.pc = IF r.panic THEN "panic" ELSE "returned",
                              !.task = r.task, !.err = r.err]
    /\ UNCHANGED << proc, dispatcherVars, picker, wait >>

InitParse ==
    /\ IdleDispatcher
    /\ proc = NoProc
    /\ picker = NoPicker
    /\ wait = NoWait
    /\ \E row \in Rows :
         acq = [pc |-> "parseTaskFromRow", row |-> row, task |-> taskOfRow(<<>>),
                err |-> Nil]

NextParse == ParseTaskFromRow

SpecParse == InitParse /\ [][NextParse]_vars

\* C38: a job the validator accepts with its scheduling flag set has a
\* schedule time that is not empty, parses, and lies after now and within
\* 30 days, and a save mode other than draft
C38_ScheduledJobsValid ==
    (acq.pc = "returned" /\ acq.err = Nil /\ acq.task.Schedule) =>
        /\ acq.task.ScheduleTime # <<>>
        /\ timeParse(acq.task.ScheduleTime).err = Nil
        /\ timeParse(acq.task.ScheduleTime).day > 0
        /\ timeParse(acq.task.ScheduleTime).day <= 30
        /\ acq.task.Action # "save_draft"

\* C39: parsing a row never ends the process, whatever the length of the
\* row, and a row of fewer than 7 cells is answered with an error
C39_ShortRowsRejected ==
    /\ acq.pc # "panic"
    /\ (acq.pc = "returned" /\ Len(acq.row) < 7) => acq.err # Nil

\* the number of clicks on the submit button in the trace of a run
SubmitClicks(t) ==
    LET clicked(e) == e.phase = "Submitted" /\ e.err = Nil
    IN  Len(SelectSeq(t, clicked))

\* the clicks on the submit button made for the job of the row in the runs
\* of the slots k..N; a slot holds the row of the job its run worked on
RECURSIVE SubmitClicksFor(_, _)
SubmitClicksFor(row, k) ==
    IF k > N THEN 0
    ELSE (IF k <= Len(videoCreateTasks) /\ videoCreateTasks[k].RowIndex = row
          THEN SubmitClicks(run[k].trace) ELSE 0)
         + SubmitClicksFor(row, k + 1)

\* C40: in both modes and on every path the submit button is clicked at
\* most once for a job
C40_SubmitAtMostOnce ==
    \A k \in 1..N :
      /\ SubmitClicks(run[k].trace) <= 1
      /\ SubmitClicksFor(input[k].RowIndex, 1) <= 1

\* a dispatch of two jobs or more has returned and the submit button was
\* clicked once for each of them
C40_Witness ==
    /\ pc = "returned"
    /\ N >= 2
    /\ \A k \in 1..N : SubmitClicksFor(input[k].RowIndex, 1) = 1

====
